---- MODULE Spec2Model ----
(***************************************************************************)
(* tsflash: the device-lifecycle coordinator of tsflashd                   *)
(* (src/tsflash/daemon.py), its poll loop, its flash tasks and its boot    *)
(* tasks, over a small USB world (src/tsflash/usb.py).                     *)
(*                                                                         *)
(* Port ids are sequences of numbers: <<1, 2>> is "1-2" and <<1, 2, 1>> is *)
(* "1-2.1"; "starts with id + '.'" is "is a proper extension of id".       *)
(* Python dicts are functions; a missing key is a value outside DOMAIN.    *)
(***************************************************************************)
EXTENDS Integers, Sequences, FiniteSets, TLC

\* ------------------------------------------------------------------ bounds
MaxTime == 5
MaxDelay == 1
MaxTasks == 2
MaxBoots == 2
BootTimeout == 2
FileSize == 2
ChunkSize == 1
MaxMounts == 2
MaxChild == 2

\* ------------------------------------------------------- program constants
NOT_CONNECTED == "not_connected"
UNKNOWN == "unknown"
BOOTING == "booting"
WAITING == "waiting"
FLASHING == "flashing"
COMPLETED == "completed"
FAILED == "failed"

None == "None"

\* exception classes
ValueError == "ValueError"
IOError == "IOError"
PermissionError == "PermissionError"
Exception == "Exception"
KeyError == "KeyError"

max_workers == 10
poll_interval == 1

\* ----------------------------------------------------------- the USB world
monitor_port == <<1, 2>>
OtherPort == <<1, 1>>
Port1 == <<1, 2, 1>>
Port2 == <<1, 2, 2>>
PORTS == {Port1, Port2}
PortOrder == <<Port1, Port2>>

SDX == "/dev/sdx"
SDY == "/dev/sdy"

EmptyPort == [vendor_id |-> None, product_id |-> None, block_devices |-> <<>>]
RpiDevice == [vendor_id |-> "0x0a5c", product_id |-> "0x2711", block_devices |-> <<>>]
HubDevice == [vendor_id |-> "0x05e3", product_id |-> "0x0610", block_devices |-> <<>>]
OtherDevice(bd) == [vendor_id |-> "0x0781", product_id |-> "0x5567", block_devices |-> bd]

\* what can be plugged into each port (block-device lists are sorted and
\* duplicate free, usb.py sorts them): a boot-eligible device, a device without
\* storage or a one-disk device into "1-2.1"; "1-2.2" stays empty
Pluggable(p) ==
    IF p = Port1
    THEN {EmptyPort, RpiDevice, OtherDevice(<<>>), OtherDevice(<<SDX>>)}
    ELSE {EmptyPort}

\* the same for the multi-disk runs: a one-disk or a two-disk device into
\* "1-2.1", nothing into "1-2.2"
PluggableMulti(p) ==
    IF p = Port1
    THEN {EmptyPort, OtherDevice(<<SDX>>), OtherDevice(<<SDX, SDY>>)}
    ELSE {EmptyPort}

\* the same for the two-port runs: a boot-eligible device or a one-disk device
\* into "1-2.1", another one-disk device into "1-2.2"
PluggablePair(p) ==
    IF p = Port1
    THEN {EmptyPort, RpiDevice, OtherDevice(<<SDX>>)}
    ELSE {EmptyPort, OtherDevice(<<SDY>>)}

Range(s) == { s[i] : i \in DOMAIN s }

VARIABLES
    usb,            \* the host's USB tree as sysfs shows it
    now,            \* time.time(), in seconds
    stable_delay,   \* config.stable_delay
    image_mmap,     \* _image_mmap: TRUE iff the image is mapped
    port_states,    \* port_states: port id -> entry
    tasks,          \* work items of _flash_executor, in submission order
    boots,          \* handle_rpiboot_completion threads, in start order
    epoch,          \* history: the detection epoch of each port
    daemon,         \* run_daemon: position, inputs, flag, executor, exit code
    fl,             \* one call of flash_image (flash.py)
    call            \* one call of a function of usb.py or of a command of cli.py

vars == <<usb, now, stable_delay, image_mmap, port_states, tasks, boots, epoch,
          daemon, fl, call>>

\* ------------------------------------------------------------ enumeration
\* p.startswith(prefix + "."): p is a proper extension of prefix
StartsWithDot(p, prefix) ==
    /\ Len(p) > Len(prefix)
    /\ SubSeq(p, 1, Len(prefix)) = prefix

\* usb.py enumerate_all_usb_ports over the world: bus 1 has two root ports,
\* "1-1" (always empty here) and "1-2"; the hub at "1-2", when plugged, has
\* maxchild ports "1-2.1" .. "1-2.maxchild"
enumerate_all_usb_ports ==
    LET children == { p \in PORTS : p[3] <= usb.maxchild }
        keys == {OtherPort, monitor_port} \cup children
    IN [ p \in keys |->
           IF p = OtherPort THEN EmptyPort
           ELSE IF p = monitor_port
                THEN (IF usb.maxchild > 0 THEN HubDevice ELSE EmptyPort)
                ELSE usb.dev[p] ]

filter_ports_by_limit(ports_data, limit_port) ==
    LET keys == { p \in DOMAIN ports_data :
                    p = limit_port \/ StartsWithDot(p, limit_port) }
    IN [ p \in keys |-> ports_data[p] ]

is_rpiboot_device(port_info) ==
    /\ port_info.vendor_id = "0x0a5c"
    /\ port_info.product_id \in {"0x2712", "0x2711"}

\* ---------------------------------------------------------------- entries
EmptyDict == [ k \in {} |-> 0 ]

\* dict.update
Update(d, e) ==
    [ k \in DOMAIN d \cup DOMAIN e |-> IF k \in DOMAIN e THEN e[k] ELSE d[k] ]

NewEntry(st, bd, t) ==
    [state |-> st, block_devices |-> bd, detected_time |-> t,
     progress |-> EmptyDict, error |-> None]

FreshProgress(t) ==
    [bytes_written |-> 0, total_bytes |-> 0, percent |-> 0, start_time |-> t]

\* port_states.pop(port_str, None)
Pop(ps, p) == [ q \in DOMAIN ps \ {p} |-> ps[q] ]

\* port_states[port_str] = entry
Put(ps, p, e) == [ q \in DOMAIN ps \cup {p} |-> IF q = p THEN e ELSE ps[q] ]

\* -------------------------------------------------------- history (epochs)
\* A detection epoch of a port runs from its entry into WAITING until the
\* entry is purged or reset to NOT_CONNECTED.  steady: the port's block
\* devices have not changed since the epoch began.  dispatched: the number of
\* ticks of the epoch that submitted flash tasks.
ClosedEpoch == [open |-> FALSE, steady |-> FALSE, dispatched |-> 0]
OpenEpoch == [open |-> TRUE, steady |-> TRUE, dispatched |-> 0]

Finished == {"succeeded", "failed"}

\* the epoch of p ends: its finished tasks are forgotten, the others are no
\* longer of the current epoch
Retire(ts, p) ==
    LET Keep(t) == ~(t.port = p /\ t.pc \in Finished)
        kept == SelectSeq(ts, Keep)
    IN [ i \in DOMAIN kept |->
           IF kept[i].port = p THEN [kept[i] EXCEPT !.cur = FALSE] ELSE kept[i] ]

\* the boot tasks of p that are still alive are no longer of the current epoch
RetireBoots(bs, p) ==
    [ i \in DOMAIN bs |-> IF bs[i].port = p THEN [bs[i] EXCEPT !.cur = FALSE] ELSE bs[i] ]

CloseEpoch(S, p) ==
    [S EXCEPT !.epoch[p] = ClosedEpoch,
              !.tasks = Retire(S.tasks, p),
              !.boots = RetireBoots(S.boots, p)]

\* ---------------------------------------------------------- the poll loop
FlashTask(p, device) ==
    [port |-> p, device |-> device, pc |-> "queued", offset |-> 0, cur |-> TRUE,
     exc |-> None]

\* for device in block_devices: _flash_executor.submit(flash_device, ...)
Submit(ts, p, block_devices) ==
    ts \o [ i \in DOMAIN block_devices |-> FlashTask(p, block_devices[i]) ]

\* threading.Thread(target=handle_rpiboot_completion, ...).start() at time t
BootTask(p, t) == [port |-> p, pc |-> "supervising", started |-> t, cur |-> TRUE]

\* port_states.get(port_str, {}).get('state', NOT_CONNECTED)
CurrentState(ps, p) == IF p \in DOMAIN ps THEN ps[p].state ELSE NOT_CONNECTED

\* S = [ps, tasks, boots, epoch] is the state an iteration of the loop over
\* downstream_ports works on

\* OnNotConnected leaving detected_time at its zero value
OnNotConnected_noTime(S, p, port_info, current_time) ==
    LET block_devices == port_info.block_devices IN
    IF block_devices # <<>> THEN
        [S EXCEPT !.ps = Put(S.ps, p, NewEntry(WAITING, block_devices, 0)),
                  !.epoch[p] = OpenEpoch]
    ELSE IF is_rpiboot_device(port_info) THEN
        [S EXCEPT !.ps = Put(S.ps, p, NewEntry(BOOTING, <<>>, current_time)),
                  !.boots = Append(S.boots, BootTask(p, current_time))]
    ELSE IF port_info.vendor_id # None \/ port_info.product_id # None THEN
        [S EXCEPT !.ps = Put(S.ps, p, NewEntry(UNKNOWN, <<>>, current_time))]
    ELSE S

\* current_state == NOT_CONNECTED: "Port was empty or newly detected"
OnNotConnected(S, p, port_info, current_time) ==
    LET block_devices == port_info.block_devices IN
    IF block_devices # <<>> THEN
        [S EXCEPT !.ps = Put(S.ps, p, NewEntry(WAITING, block_devices, current_time)),
                  !.epoch[p] = OpenEpoch]
    ELSE IF is_rpiboot_device(port_info) THEN
        [S EXCEPT !.ps = Put(S.ps, p, NewEntry(BOOTING, <<>>, current_time)),
                  !.boots = Append(S.boots, BootTask(p, current_time))]
    ELSE IF port_info.vendor_id # None \/ port_info.product_id # None THEN
        [S EXCEPT !.ps = Put(S.ps, p, NewEntry(UNKNOWN, <<>>, current_time))]
    ELSE S

\* OnBooting moving to WAITING with the detected_time of the BOOTING entry
OnBooting_keepTime(S, p, port_info, current_time) ==
    LET block_devices == port_info.block_devices IN
    IF block_devices # <<>> THEN
        [S EXCEPT !.ps[p].state = WAITING,
                  !.ps[p].block_devices = block_devices,
                  !.epoch[p] = OpenEpoch]
    ELSE S

\* current_state == BOOTING: "check if block device appeared"
OnBooting(S, p, port_info, current_time) ==
    LET block_devices == port_info.block_devices IN
    IF block_devices # <<>> THEN
        [S EXCEPT !.ps[p].state = WAITING,
                  !.ps[p].block_devices = block_devices,
                  !.ps[p].detected_time = current_time,
                  !.epoch[p] = OpenEpoch]
    ELSE S

\* OnWaiting submitting the jobs without the "Update state to FLASHING before
\* submitting jobs"
OnWaiting_stayWaiting(S, p, port_info, current_time) ==
    LET block_devices == port_info.block_devices IN
    IF block_devices = <<>> THEN
        CloseEpoch([S EXCEPT !.ps[p].block_devices = block_devices,
                             !.ps[p].state = NOT_CONNECTED], p)
    ELSE IF current_time - S.ps[p].detected_time >= stable_delay THEN
        IF ~image_mmap THEN
            [S EXCEPT !.ps[p].block_devices = block_devices,
                      !.ps[p].state = FAILED,
                      !.ps[p].error = "Image not available"]
        ELSE
            [S EXCEPT !.ps[p].block_devices = block_devices,
                      !.ps[p].progress = FreshProgress(current_time),
                      !.tasks = Submit(S.tasks, p, block_devices),
                      !.epoch[p].dispatched = @ + 1]
    ELSE [S EXCEPT !.ps[p].block_devices = block_devices]

\* current_state == WAITING: "waiting for stable_delay"
OnWaiting(S, p, port_info, current_time) ==
    LET block_devices == port_info.block_devices IN
    IF block_devices = <<>> THEN
        CloseEpoch([S EXCEPT !.ps[p].block_devices = block_devices,
                             !.ps[p].state = NOT_CONNECTED], p)
    ELSE IF current_time - S.ps[p].detected_time >= stable_delay THEN
        IF ~image_mmap THEN
            [S EXCEPT !.ps[p].block_devices = block_devices,
                      !.ps[p].state = FAILED,
                      !.ps[p].error = "Image not available"]
        ELSE
            [S EXCEPT !.ps[p].block_devices = block_devices,
                      !.ps[p].state = FLASHING,
                      !.ps[p].progress = FreshProgress(current_time),
                      !.tasks = Submit(S.tasks, p, block_devices),
                      !.epoch[p].dispatched = @ + 1]
    ELSE [S EXCEPT !.ps[p].block_devices = block_devices]

\* current_state == FLASHING: "state updated by flash_device callback"
OnFlashing(S, p, port_info, current_time) ==
    [S EXCEPT !.ps[p].block_devices = port_info.block_devices]

\* OnCompleted resetting the entry to NOT_CONNECTED instead of removing it
OnCompleted_reset(S, p, port_info, current_time) ==
    IF port_info.block_devices = <<>>
    THEN CloseEpoch([S EXCEPT !.ps[p].block_devices = port_info.block_devices,
                              !.ps[p].state = NOT_CONNECTED], p)
    ELSE [S EXCEPT !.ps[p].block_devices = port_info.block_devices]

\* current_state == COMPLETED: "wait for device removal"
OnCompleted(S, p, port_info, current_time) ==
    IF port_info.block_devices = <<>>
    THEN CloseEpoch([S EXCEPT !.ps = Pop(S.ps, p)], p)
    ELSE [S EXCEPT !.ps[p].block_devices = port_info.block_devices]

\* current_state == FAILED: "keep tracking until device is removed"
OnFailed(S, p, port_info, current_time) ==
    IF port_info.block_devices = <<>>
    THEN CloseEpoch([S EXCEPT !.ps = Pop(S.ps, p)], p)
    ELSE [S EXCEPT !.ps[p].block_devices = port_info.block_devices]

\* current_state == UNKNOWN: "check if it got block devices or was removed"
OnUnknown(S, p, port_info, current_time) ==
    LET block_devices == port_info.block_devices IN
    IF block_devices # <<>> THEN
        [S EXCEPT !.ps[p].state = WAITING,
                  !.ps[p].block_devices = block_devices,
                  !.ps[p].detected_time = current_time,
                  !.epoch[p] = OpenEpoch]
    ELSE IF port_info.vendor_id = None /\ port_info.product_id = None THEN
        [S EXCEPT !.ps = Pop(S.ps, p)]
    ELSE S

\* one iteration of "for port_str, port_info in downstream_ports.items()"
ProcessPort(S, p, port_info, current_time) ==
    LET current_state == CurrentState(S.ps, p) IN
    CASE current_state = NOT_CONNECTED -> OnNotConnected(S, p, port_info, current_time)
      [] current_state = BOOTING -> OnBooting(S, p, port_info, current_time)
      [] current_state = WAITING -> OnWaiting(S, p, port_info, current_time)
      [] current_state = FLASHING -> OnFlashing(S, p, port_info, current_time)
      [] current_state = COMPLETED -> OnCompleted(S, p, port_info, current_time)
      [] current_state = FAILED -> OnFailed(S, p, port_info, current_time)
      [] current_state = UNKNOWN -> OnUnknown(S, p, port_info, current_time)

\* the for loop over downstream_ports, the monitor port skipped
RECURSIVE ProcessPorts(_, _, _, _)
ProcessPorts(S, downstream_ports, i, current_time) ==
    IF i > Len(PortOrder) THEN S
    ELSE LET p == PortOrder[i]
             S1 == IF p \in DOMAIN downstream_ports /\ p # monitor_port
                   THEN ProcessPort(S, p, downstream_ports[p], current_time)
                   ELSE S
         IN ProcessPorts(S1, downstream_ports, i + 1, current_time)

\* CleanUp sparing the entries whose background tasks may still be running
RECURSIVE CleanUp_spareBusy(_, _, _)
CleanUp_spareBusy(S, current_port_strings, i) ==
    IF i > Len(PortOrder) THEN S
    ELSE LET p == PortOrder[i]
             S1 == IF /\ p \in DOMAIN S.ps
                      /\ p \notin current_port_strings
                      /\ S.ps[p].state \notin {BOOTING, FLASHING}
                   THEN CloseEpoch([S EXCEPT !.ps = Pop(S.ps, p)], p)
                   ELSE S
         IN CleanUp_spareBusy(S1, current_port_strings, i + 1)

\* "Clean up ports that no longer exist"
RECURSIVE CleanUp(_, _, _)
CleanUp(S, current_port_strings, i) ==
    IF i > Len(PortOrder) THEN S
    ELSE LET p == PortOrder[i]
             S1 == IF p \in DOMAIN S.ps /\ p \notin current_port_strings
                   THEN CloseEpoch([S EXCEPT !.ps = Pop(S.ps, p)], p)
                   ELSE S
         IN CleanUp(S1, current_port_strings, i + 1)

\* the body of one iteration of the while loop, enumeration succeeded
TickResult ==
    LET current_time == now
        ports_data == enumerate_all_usb_ports
        downstream_ports == filter_ports_by_limit(ports_data, monitor_port)
        current_port_strings == DOMAIN downstream_ports
        S0 == [ps |-> port_states, tasks |-> tasks, boots |-> boots, epoch |-> epoch]
        S1 == ProcessPorts(S0, downstream_ports, 1, current_time)
    IN CleanUp(S1, current_port_strings, 1)

\* thread.join(timeout=timeout) returns when the timeout has elapsed: time does
\* not pass the deadline of a boot task whose supervisor is still in join
JoinsInTime ==
    \A i \in DOMAIN boots :
        boots[i].pc = "supervising" => now < boots[i].started + BootTimeout

\* "while not _shutdown_requested" that ignores the flag
LoopTest_ignoreFlag(d) == "body"

\* "while not _shutdown_requested": the loop goes on with the next pass, or
\* leaves for the finally block of monitor_devices
LoopTest(d) == IF d.shutdown_requested THEN "finally" ELSE "body"

\* one iteration of the loop of monitor_devices, entered because the flag was
\* not set: the transition pass, time.sleep, and the test of the flag that
\* decides on the next iteration; a signal that arrives during the iteration
\* is a SignalHandler step before it
Tick ==
    /\ daemon.pc = "body"
    /\ usb.sysfs
    /\ now < MaxTime
    /\ JoinsInTime
    /\ LET S == TickResult IN
        /\ Len(S.tasks) <= MaxTasks
        /\ Len(S.boots) <= MaxBoots
        /\ port_states' = S.ps
        /\ tasks' = S.tasks
        /\ boots' = S.boots
        /\ epoch' = S.epoch
    /\ now' = now + poll_interval
    /\ daemon' = [daemon EXCEPT !.pc = LoopTest(daemon)]
    /\ UNCHANGED <<usb, stable_delay, image_mmap, fl, call>>

\* the same iteration once the clock of the model has reached MaxTime: the
\* loop has no last iteration, the model's clock has a last value, and every
\* later time.time() is read as MaxTime; late is the parity of the number of
\* these iterations (history)
TickLate ==
    /\ daemon.pc = "body"
    /\ usb.sysfs
    /\ now = MaxTime
    /\ JoinsInTime
    /\ LET S == TickResult IN
        /\ Len(S.tasks) <= MaxTasks
        /\ Len(S.boots) <= MaxBoots
        /\ port_states' = S.ps
        /\ tasks' = S.tasks
        /\ boots' = S.boots
        /\ epoch' = S.epoch
    /\ now' = now
    /\ daemon' = [daemon EXCEPT !.pc = LoopTest(daemon), !.late = 1 - @]
    /\ UNCHANGED <<usb, stable_delay, image_mmap, fl, call>>

\* a tick whose enumeration raises RuntimeError: the error is logged and the
\* loop sleeps
TickError ==
    /\ daemon.pc = "body"
    /\ ~usb.sysfs
    /\ now < MaxTime
    /\ JoinsInTime
    /\ now' = now + poll_interval
    /\ daemon' = [daemon EXCEPT !.pc = LoopTest(daemon)]
    /\ UNCHANGED <<usb, stable_delay, image_mmap, port_states, tasks, boots, epoch, fl, call>>

\* -------------------------------------------------------------- flash task
RemoveAt(s, i) == SubSeq(s, 1, i - 1) \o SubSeq(s, i + 1, Len(s))

Min(a, b) == IF a < b THEN a ELSE b

\* a work item leaves the executor when flash_device returns; a finished task
\* of the port's current epoch is remembered (history) until the epoch ends
Finish(ts, i, result) ==
    IF ts[i].cur THEN [ts EXCEPT ![i].pc = result] ELSE RemoveAt(ts, i)

Running(ts) == { i \in DOMAIN ts : ts[i].pc = "running" }
QueuedBefore(ts, i) == { j \in DOMAIN ts : j < i /\ ts[j].pc = "queued" }

\* a pool thread takes the work item (FIFO, at most max_workers threads) and
\* runs flash_device up to the call of flash_image
FlashStart(i) ==
    /\ tasks[i].pc = "queued"
    /\ Cardinality(Running(tasks)) + Cardinality(QueuedBefore(tasks, i)) < max_workers
    /\ LET p == tasks[i].port
           ps1 == IF p \notin DOMAIN port_states
                  THEN Put(port_states, p, NewEntry(FLASHING, <<>>, now))
                  ELSE port_states
       IN port_states' = [ps1 EXCEPT ![p].state = FLASHING,
                                     ![p].progress = FreshProgress(now)]
    /\ tasks' = [tasks EXCEPT ![i].pc = "running"]
    /\ UNCHANGED <<usb, now, stable_delay, image_mmap, boots, epoch, daemon, fl, call>>

\* progress_callback writing into one progress record shared by the ports
\* that are flashing
progress_callback_shared(ps, p, bytes_written, total_bytes, percent) ==
    [ q \in DOMAIN ps |->
        IF q = p \/ ps[q].state = FLASHING
        THEN [ps[q] EXCEPT !.progress = Update(@, [bytes_written |-> bytes_written,
                                                   total_bytes |-> total_bytes,
                                                   percent |-> percent]),
                           !.state = FLASHING]
        ELSE ps[q] ]

\* progress_callback(bytes_written, total_bytes, percent)
progress_callback(ps, p, bytes_written, total_bytes, percent) ==
    IF p \in DOMAIN ps
    THEN [ps EXCEPT ![p].progress = Update(@, [bytes_written |-> bytes_written,
                                               total_bytes |-> total_bytes,
                                               percent |-> percent]),
                    ![p].state = FLASHING]
    ELSE ps

\* flash_image takes one chunk from the mapped image (a closed mapping raises
\* ValueError instead: FlashFail), writes it and calls the progress callback
FlashProgress(i) ==
    /\ tasks[i].pc = "running"
    /\ tasks[i].offset < FileSize
    /\ image_mmap
    /\ LET bytes_written == Min(tasks[i].offset + ChunkSize, FileSize)
           percent == (bytes_written * 100) \div FileSize
       IN /\ tasks' = [tasks EXCEPT ![i].offset = bytes_written]
          /\ port_states' = progress_callback(port_states, tasks[i].port,
                                              bytes_written, FileSize, percent)
    /\ UNCHANGED <<usb, now, stable_delay, image_mmap, boots, epoch, daemon, fl, call>>

\* a task that returns after a successful flash without reporting it
FlashSucceed_silent(i) ==
    /\ tasks[i].pc = "running"
    /\ tasks[i].offset >= FileSize
    /\ tasks' = Finish(tasks, i, "succeeded")
    /\ UNCHANGED <<usb, now, stable_delay, image_mmap, port_states, boots, epoch, daemon, fl, call>>

\* flash_image returns: "Mark as completed"
FlashSucceed(i) ==
    /\ tasks[i].pc = "running"
    /\ tasks[i].offset >= FileSize
    /\ LET p == tasks[i].port IN
        port_states' = IF p \in DOMAIN port_states
                       THEN [port_states EXCEPT ![p].state = COMPLETED,
                                                ![p].progress = Update(@, [percent |-> 100]),
                                                ![p].error = None]
                       ELSE port_states
    /\ tasks' = Finish(tasks, i, "succeeded")
    /\ UNCHANGED <<usb, now, stable_delay, image_mmap, boots, epoch, daemon, fl, call>>

\* flash_image raises (unmount, open or write failure): "Mark as failed"
FlashFail(i) ==
    /\ tasks[i].pc = "running"
    /\ LET p == tasks[i].port IN
        port_states' = IF p \in DOMAIN port_states
                       THEN [port_states EXCEPT ![p].state = FAILED,
                                                ![p].error = "flash error"]
                       ELSE port_states
    /\ tasks' = Finish(tasks, i, "failed")
    /\ UNCHANGED <<usb, now, stable_delay, image_mmap, boots, epoch, daemon, fl, call>>

\* --------------------------------------------------------------- boot task
\* boot_rpiboot_device returns to handle_rpiboot_completion, which kills the
\* helper thread on a timeout
BootReturn_killsHelper(i, outcome) ==
    /\ boots[i].pc = "supervising"
    /\ IF outcome = "timeout"
       THEN now = boots[i].started + BootTimeout
       ELSE now < boots[i].started + BootTimeout
    /\ LET p == boots[i].port IN
        port_states' = IF p \in DOMAIN port_states /\ outcome # "success"
                       THEN [port_states EXCEPT ![p].state = FAILED,
                                                ![p].error = "rpiboot failed"]
                       ELSE port_states
    /\ boots' = RemoveAt(boots, i)
    /\ UNCHANGED <<usb, now, stable_delay, image_mmap, tasks, epoch, daemon, fl, call>>

\* boot_rpiboot_device returns to handle_rpiboot_completion: the helper thread
\* ended with success or failure before the timeout, or the join timed out
\* ("completed" still False) and the helper thread is left running
BootReturn(i, outcome) ==
    /\ boots[i].pc = "supervising"
    /\ IF outcome = "timeout"
       THEN now = boots[i].started + BootTimeout
       ELSE now < boots[i].started + BootTimeout
    /\ LET p == boots[i].port IN
        port_states' = IF p \in DOMAIN port_states /\ outcome # "success"
                       THEN [port_states EXCEPT ![p].state = FAILED,
                                                ![p].error = "rpiboot failed"]
                       ELSE port_states
    /\ boots' = IF outcome = "timeout"
                THEN [boots EXCEPT ![i].pc = "abandoned"]
                ELSE RemoveAt(boots, i)
    /\ UNCHANGED <<usb, now, stable_delay, image_mmap, tasks, epoch, daemon, fl, call>>

\* the helper thread of a timed-out boot ends
HelperExit(i) ==
    /\ boots[i].pc = "abandoned"
    /\ boots' = RemoveAt(boots, i)
    /\ UNCHANGED <<usb, now, stable_delay, image_mmap, port_states, tasks, epoch, daemon, fl, call>>

\* --------------------------------------- the tasks, one dict access per step
\* The same threads with the key-presence test ("if port_str in port_states")
\* and the writes it guards as separate steps, so that a pass of the poll loop
\* can run between them.  port_states[port_str] on a missing key raises
\* KeyError.

\* flash_device up to the test "if port_str not in port_states", which creates
\* a missing entry
FlashStartCheck(i) ==
    /\ tasks[i].pc = "queued"
    /\ Cardinality({ j \in DOMAIN tasks : tasks[j].pc \notin {"queued", "raised"} \cup Finished })
         + Cardinality(QueuedBefore(tasks, i)) < max_workers
    /\ LET p == tasks[i].port IN
        port_states' = IF p \notin DOMAIN port_states
                       THEN Put(port_states, p, NewEntry(FLASHING, <<>>, now))
                       ELSE port_states
    /\ tasks' = [tasks EXCEPT ![i].pc = "start_checked"]
    /\ UNCHANGED <<usb, now, stable_delay, image_mmap, boots, epoch, daemon, fl, call>>

\* port_states[port_str]['state'] = FLASHING and the fresh progress record,
\* outside the try block: a KeyError leaves flash_device
FlashStartWrite(i) ==
    /\ tasks[i].pc = "start_checked"
    /\ LET p == tasks[i].port IN
        IF p \in DOMAIN port_states
        THEN /\ port_states' = [port_states EXCEPT ![p].state = FLASHING,
                                                   ![p].progress = FreshProgress(now)]
             /\ tasks' = [tasks EXCEPT ![i].pc = "running"]
        ELSE /\ port_states' = port_states
             /\ tasks' = [tasks EXCEPT ![i].pc = "raised", ![i].exc = KeyError]
    /\ UNCHANGED <<usb, now, stable_delay, image_mmap, boots, epoch, daemon, fl, call>>

\* flash_image writes one chunk and calls progress_callback, which tests
\* "if port_str in port_states"
ProgressCheck(i) ==
    /\ tasks[i].pc = "running"
    /\ tasks[i].offset < FileSize
    /\ image_mmap
    /\ tasks' = [tasks EXCEPT ![i].offset = Min(tasks[i].offset + ChunkSize, FileSize),
                              ![i].pc = IF tasks[i].port \in DOMAIN port_states
                                        THEN "callback_checked" ELSE "running"]
    /\ UNCHANGED <<usb, now, stable_delay, image_mmap, port_states, boots, epoch, daemon, fl, call>>

\* the writes of progress_callback; flash_image swallows the KeyError
ProgressWrite(i) ==
    /\ tasks[i].pc = "callback_checked"
    /\ port_states' = progress_callback(port_states, tasks[i].port, tasks[i].offset,
                                        FileSize, (tasks[i].offset * 100) \div FileSize)
    /\ tasks' = [tasks EXCEPT ![i].pc = "running"]
    /\ UNCHANGED <<usb, now, stable_delay, image_mmap, boots, epoch, daemon, fl, call>>

\* flash_image has returned: "Mark as completed", the test
CompletedCheck(i) ==
    /\ tasks[i].pc = "running"
    /\ tasks[i].offset >= FileSize
    /\ tasks' = IF tasks[i].port \in DOMAIN port_states
                THEN [tasks EXCEPT ![i].pc = "completed_checked"]
                ELSE Finish(tasks, i, "succeeded")
    /\ UNCHANGED <<usb, now, stable_delay, image_mmap, port_states, boots, epoch, daemon, fl, call>>

\* "Mark as completed", the writes, inside the try block: a KeyError is caught
\* by "except Exception"
CompletedWrite(i) ==
    /\ tasks[i].pc = "completed_checked"
    /\ LET p == tasks[i].port IN
        IF p \in DOMAIN port_states
        THEN /\ port_states' = [port_states EXCEPT ![p].state = COMPLETED,
                                                   ![p].progress = Update(@, [percent |-> 100]),
                                                   ![p].error = None]
             /\ tasks' = Finish(tasks, i, "succeeded")
        ELSE /\ port_states' = port_states
             /\ tasks' = [tasks EXCEPT ![i].pc = "except", ![i].exc = KeyError]
    /\ UNCHANGED <<usb, now, stable_delay, image_mmap, boots, epoch, daemon, fl, call>>

\* flash_image raises (unmount, open or write failure)
FlashRaises(i) ==
    /\ tasks[i].pc = "running"
    /\ tasks' = [tasks EXCEPT ![i].pc = "except", ![i].exc = IOError]
    /\ UNCHANGED <<usb, now, stable_delay, image_mmap, port_states, boots, epoch, daemon, fl, call>>

\* "except Exception": "Mark as failed", the test; flash_device returns False
FailedCheck(i) ==
    /\ tasks[i].pc = "except"
    /\ tasks' = IF tasks[i].port \in DOMAIN port_states
                THEN [tasks EXCEPT ![i].pc = "failed_checked"]
                ELSE Finish(tasks, i, "failed")
    /\ UNCHANGED <<usb, now, stable_delay, image_mmap, port_states, boots, epoch, daemon, fl, call>>

\* "Mark as failed", the writes, inside the except block: a KeyError leaves
\* flash_device
FailedWrite(i) ==
    /\ tasks[i].pc = "failed_checked"
    /\ LET p == tasks[i].port IN
        IF p \in DOMAIN port_states
        THEN /\ port_states' = [port_states EXCEPT
                                  ![p].state = FAILED,
                                  ![p].error = IF tasks[i].exc = KeyError
                                               THEN "'port_str'" ELSE "flash error"]
             /\ tasks' = Finish(tasks, i, "failed")
        ELSE /\ port_states' = port_states
             /\ tasks' = [tasks EXCEPT ![i].pc = "raised", ![i].exc = KeyError]
    /\ UNCHANGED <<usb, now, stable_delay, image_mmap, boots, epoch, daemon, fl, call>>

\* boot_rpiboot_device returns to handle_rpiboot_completion, which tests
\* "if port in states" and, on success, writes nothing
BootCheck(i, outcome) ==
    /\ boots[i].pc = "supervising"
    /\ IF outcome = "timeout"
       THEN now = boots[i].started + BootTimeout
       ELSE now < boots[i].started + BootTimeout
    /\ boots' = IF boots[i].port \in DOMAIN port_states /\ outcome # "success"
                THEN [boots EXCEPT ![i].pc = "failed_checked"]
                ELSE RemoveAt(boots, i)
    /\ UNCHANGED <<usb, now, stable_delay, image_mmap, port_states, tasks, epoch, daemon, fl, call>>

\* states[port]['state'] = FAILED and the error, inside the try block
BootWrite(i) ==
    /\ boots[i].pc = "failed_checked"
    /\ LET p == boots[i].port IN
        IF p \in DOMAIN port_states
        THEN /\ port_states' = [port_states EXCEPT ![p].state = FAILED,
                                                   ![p].error = "rpiboot failed"]
             /\ boots' = RemoveAt(boots, i)
        ELSE /\ port_states' = port_states
             /\ boots' = [boots EXCEPT ![i].pc = "except"]
    /\ UNCHANGED <<usb, now, stable_delay, image_mmap, tasks, epoch, daemon, fl, call>>

\* "except Exception" of handle_rpiboot_completion: the test
BootExceptCheck(i) ==
    /\ boots[i].pc = "except"
    /\ boots' = IF boots[i].port \in DOMAIN port_states
                THEN [boots EXCEPT ![i].pc = "except_checked"]
                ELSE RemoveAt(boots, i)
    /\ UNCHANGED <<usb, now, stable_delay, image_mmap, port_states, tasks, epoch, daemon, fl, call>>

\* the writes of the except block: a KeyError ends the thread
BootExceptWrite(i) ==
    /\ boots[i].pc = "except_checked"
    /\ LET p == boots[i].port IN
        IF p \in DOMAIN port_states
        THEN /\ port_states' = [port_states EXCEPT ![p].state = FAILED,
                                                   ![p].error = "'port_str'"]
             /\ boots' = RemoveAt(boots, i)
        ELSE /\ port_states' = port_states
             /\ boots' = [boots EXCEPT ![i].pc = "raised"]
    /\ UNCHANGED <<usb, now, stable_delay, image_mmap, tasks, epoch, daemon, fl, call>>

\* ------------------------------------------------------------- environment
CanonicalDev == [ p \in PORTS |-> EmptyPort ]

\* the epochs of the ports whose block devices change are no longer steady
Disturb(dev1) ==
    [ p \in PORTS |->
        IF epoch[p].open /\ dev1[p].block_devices # usb.dev[p].block_devices
        THEN [epoch[p] EXCEPT !.steady = FALSE] ELSE epoch[p] ]

\* a device is plugged into, removed from or changes on downstream port p
Attach(p, info) ==
    /\ usb.sysfs
    /\ p[3] <= usb.maxchild
    /\ info # usb.dev[p]
    /\ \A q \in PORTS \ {p} :
          Range(info.block_devices) \cap Range(usb.dev[q].block_devices) = {}
    /\ LET dev1 == [usb.dev EXCEPT ![p] = info] IN
        /\ usb' = [usb EXCEPT !.dev = dev1]
        /\ epoch' = Disturb(dev1)
    /\ UNCHANGED <<now, stable_delay, image_mmap, port_states, tasks, boots, daemon, fl, call>>

\* a device is plugged into the empty port p, or the boot-eligible device on p
\* comes back as a mass-storage device; nothing is unplugged
PlugIn(p, info) ==
    /\ \/ usb.dev[p] = EmptyPort
       \/ is_rpiboot_device(usb.dev[p]) /\ info.block_devices # <<>>
    /\ Attach(p, info)

\* the hub at the monitor port is unplugged (n = 0) or replaced by one with n
\* ports; the devices on ports that no longer exist are gone
SetMaxChild(n) ==
    /\ usb.sysfs
    /\ n # usb.maxchild
    /\ LET dev1 == [ p \in PORTS |-> IF p[3] <= n THEN usb.dev[p] ELSE EmptyPort ] IN
        /\ usb' = [usb EXCEPT !.maxchild = n, !.dev = dev1]
        /\ epoch' = Disturb(dev1)
    /\ UNCHANGED <<now, stable_delay, image_mmap, port_states, tasks, boots, daemon, fl, call>>

\* /sys/bus/usb/devices disappears, or comes back with nothing plugged
SetSysfs(b) ==
    /\ b # usb.sysfs
    /\ usb' = [sysfs |-> b, maxchild |-> 0, dev |-> CanonicalDev]
    /\ epoch' = Disturb(CanonicalDev)
    /\ UNCHANGED <<now, stable_delay, image_mmap, port_states, tasks, boots, daemon, fl, call>>

\* ------------------------------------------------------------- flash_image
\* Strings are sequences of one-character strings: <<"4", "M">> is "4M".

Digits == {"0", "1", "2", "3", "4", "5", "6", "7", "8", "9"}

DigitValue ==
    "0" :> 0 @@ "1" :> 1 @@ "2" :> 2 @@ "3" :> 3 @@ "4" :> 4 @@
    "5" :> 5 @@ "6" :> 6 @@ "7" :> 7 @@ "8" :> 8 @@ "9" :> 9

\* decimal multiples in place of the binary ones
multipliers_decimal ==
    "K" :> 1000 @@ "M" :> 1000 * 1000 @@ "G" :> 1000 * 1000 * 1000

multipliers == "K" :> 1024 @@ "M" :> 1024 * 1024 @@ "G" :> 1024 * 1024 * 1024

\* str.upper on the letters that matter
Upper(str) ==
    [ i \in DOMAIN str |->
        CASE str[i] = "k" -> "K"
          [] str[i] = "m" -> "M"
          [] str[i] = "g" -> "G"
          [] OTHER -> str[i] ]

\* str.strip
RECURSIVE Strip(_)
Strip(str) ==
    IF str = <<>> THEN str
    ELSE IF Head(str) = " " THEN Strip(Tail(str))
    ELSE IF str[Len(str)] = " " THEN Strip(SubSeq(str, 1, Len(str) - 1))
    ELSE str

\* the value of a non-empty string of digits
RECURSIVE DigitsValue(_)
DigitsValue(str) ==
    IF str = <<>> THEN 0
    ELSE DigitsValue(SubSeq(str, 1, Len(str) - 1)) * 10 + DigitValue[str[Len(str)]]

\* the outcome of a call: a value, or an exception
Return(v) == [raised |-> None, value |-> v]
Raise(e) == [raised |-> e, value |-> 0]

\* int(str): blanks around the number and a sign are accepted; anything else
\* raises ValueError
int(str) ==
    LET t == Strip(str)
        signed == t # <<>> /\ Head(t) \in {"+", "-"}
        d == IF signed THEN Tail(t) ELSE t
    IN IF d = <<>> \/ \E i \in DOMAIN d : d[i] \notin Digits THEN Raise(ValueError)
       ELSE IF signed /\ Head(t) = "-" THEN Return(0 - DigitsValue(d))
       ELSE Return(DigitsValue(d))

\* flash.py parse_block_size
parse_block_size(block_size_str) ==
    LET str == Upper(Strip(block_size_str)) IN
    IF str = <<>> THEN Raise(ValueError)
    ELSE IF str[Len(str)] \notin DOMAIN multipliers THEN int(str)
    ELSE LET number == int(SubSeq(str, 1, Len(str) - 1)) IN
         IF number.raised # None THEN Raise(ValueError)
         ELSE Return(number.value * multipliers[str[Len(str)]])

\* the block sizes flash_image is called with
BlockSizes ==
    { <<"1">>, <<"2">>, <<" ", "1", "k">>, <<"0">>, <<"-", "1">>, <<"K">>,
      <<"x">>, <<>>,
      <<"4", "M">>, <<"5", "1", "2", "K">>, <<"1", "G">>, <<"1", "0", "0">>,
      <<"4", "X">>, <<"M", "4">> }

\* what "umount <mount point>" does for each mounted partition of the target,
\* in the order of is_mounted: "ok", a non-zero return code, or an exception
UnmountOutcomes == {"ok", "nonzero", "exception"}
MountLists == UNION { [1..k -> UnmountOutcomes] : k \in 0..MaxMounts }

\* the number of umount commands unmount_device runs: it stops at the first
\* one that fails
RECURSIVE UnmountsRun(_, _)
UnmountsRun(mounted, i) ==
    IF i > Len(mounted) THEN Len(mounted)
    ELSE IF mounted[i] # "ok" THEN i
    ELSE UnmountsRun(mounted, i + 1)

\* unmount_device going on after a failed umount and returning True
unmount_device_lenient(mounted) ==
    [ok |-> TRUE, ran |-> Len(mounted)]

\* flash.py unmount_device: True iff every mounted partition was unmounted
unmount_device(mounted) ==
    [ok |-> \A i \in DOMAIN mounted : mounted[i] = "ok",
     ran |-> UnmountsRun(mounted, 1)]

\* len(image_mmap[offset:end_offset]) by the rules of Python slices over a
\* buffer of n bytes
SliceLen(start, end, n) ==
    LET Norm(x) == IF x < 0 THEN (IF x + n < 0 THEN 0 ELSE x + n)
                   ELSE (IF x > n THEN n ELSE x)
    IN IF Norm(end) > Norm(start) THEN Norm(end) - Norm(start) ELSE 0

\* the chunk the write loop takes at fl.offset
ChunkLen ==
    SliceLen(fl.offset, Min(fl.offset + fl.chunk_size, fl.file_size), fl.file_size)

\* flash_image(image_source, target_device, block_size, ...) is called.
\* device_file is the local variable, handle the descriptor behind it, chunks
\* the windows <<offset, length>> of the image handed to device_file.write,
\* log the operations on the target in the order they were made, calls the
\* argument lists progress_callback was called with
FlashCall(block_size, mounted, file_size, non_interactive, callback) ==
    [pc |-> "parse", block_size |-> block_size, mounted |-> mounted,
     file_size |-> file_size, non_interactive |-> non_interactive,
     progress_callback |-> callback, calls |-> <<>>,
     chunk_size |-> 0, unmounts |-> 0,
     device_file |-> None, handle |-> "none", opens |-> 0, closes |-> 0,
     offset |-> 0, bytes_written |-> 0, chunks |-> <<>>,
     callbacks |-> 0, callback_errors |-> 0, exc |-> None,
     log |-> <<>>, sync_failed |-> FALSE]

DaemonVars == <<usb, now, stable_delay, image_mmap, port_states, tasks, boots,
                epoch, daemon, call>>

\* "chunk_size = parse_block_size(block_size)", ValueError re-raised
FI_ParseBlockSize ==
    /\ fl.pc = "parse"
    /\ LET r == parse_block_size(fl.block_size) IN
        fl' = IF r.raised # None
              THEN [fl EXCEPT !.pc = "raised", !.exc = r.raised, !.log = Append(@, "parse")]
              ELSE [fl EXCEPT !.pc = "unmount", !.chunk_size = r.value,
                              !.log = Append(@, "parse")]
    /\ UNCHANGED DaemonVars

\* "if not unmount_device(target_device): raise IOError", before the try
FI_Unmount ==
    /\ fl.pc = "unmount"
    /\ LET r == unmount_device(fl.mounted) IN
        fl' = IF r.ok
              THEN [fl EXCEPT !.pc = "open", !.unmounts = r.ran,
                              !.log = Append(@, "unmount")]
              ELSE [fl EXCEPT !.pc = "raised", !.unmounts = r.ran, !.exc = IOError,
                              !.log = Append(@, "unmount")]
    /\ UNCHANGED DaemonVars

\* open(target_device, 'wb', buffering=0)
FI_Open(outcome) ==
    /\ fl.pc = "open"
    /\ fl' = IF outcome = "ok"
             THEN [fl EXCEPT !.pc = "write", !.device_file = "FileIO",
                             !.handle = "open", !.opens = @ + 1,
                             !.log = Append(@, "open")]
             ELSE [fl EXCEPT !.pc = "finally", !.exc = outcome,
                             !.log = Append(@, "open")]
    /\ UNCHANGED DaemonVars

\* one iteration of the write loop up to the callback: the slice of the image
\* (ValueError when the mapping has been closed), device_file.write(chunk)
\* (an OSError of any kind is re-raised as IOError), the counters,
\* "if progress_callback:"
FI_WriteChunk(outcome) ==
    /\ fl.pc = "write"
    /\ fl.offset < fl.file_size
    /\ ChunkLen > 0
    /\ fl' = IF outcome = "ok"
             THEN [fl EXCEPT !.pc = IF fl.progress_callback # None
                                   THEN "callback" ELSE "write",
                             !.chunks = Append(@, <<fl.offset, ChunkLen>>),
                             !.bytes_written = @ + ChunkLen,
                             !.offset = @ + ChunkLen,
                             !.log = Append(@, "write")]
             ELSE [fl EXCEPT !.pc = "finally", !.exc = outcome,
                             !.log = Append(@, "write")]
    /\ UNCHANGED DaemonVars

\* the callback's exception going up to the caller of flash_image
AfterCallback_propagates(f, outcome) ==
    IF outcome = "ok"
    THEN [f EXCEPT !.pc = "write", !.callbacks = @ + 1]
    ELSE [f EXCEPT !.pc = "finally", !.callbacks = @ + 1,
                   !.callback_errors = @ + 1, !.exc = outcome]

\* "try: progress_callback(bytes_written, file_size, percent)
\*  except Exception: logger.debug(...)": the loop goes on either way
AfterCallback(f, outcome) ==
    [f EXCEPT !.pc = "write", !.callbacks = @ + 1,
              !.callback_errors = @ + (IF outcome = "ok" THEN 0 ELSE 1)]

\* percent = bytes_written / file_size * 100, in whole percent
Percent(bytes_written, file_size) ==
    IF file_size > 0 THEN (bytes_written * 100) \div file_size ELSE 0

\* the arguments of the call of progress_callback: the non-interactive loop
\* passes (bytes_written, file_size, percent), the interactive loop
\* (target_device, bytes_written, file_size, percent)
CallbackArgs(f) ==
    IF f.non_interactive
    THEN <<f.bytes_written, f.file_size, Percent(f.bytes_written, f.file_size)>>
    ELSE <<SDX, f.bytes_written, f.file_size, Percent(f.bytes_written, f.file_size)>>

\* the progress callback of the chunk just written is called and returns or
\* raises
FI_Callback(outcome) ==
    /\ fl.pc = "callback"
    /\ fl' = [AfterCallback(fl, outcome) EXCEPT !.calls = Append(@, CallbackArgs(fl))]
    /\ UNCHANGED DaemonVars

\* the loop ends (offset >= file_size, or an empty chunk: break):
\* "os.fsync(device_file.fileno())", an OSError is a warning
FI_WriteEnd(outcome) ==
    /\ fl.pc = "write"
    /\ fl.offset >= fl.file_size \/ ChunkLen = 0
    /\ fl' = [fl EXCEPT !.pc = "close", !.log = Append(@, "fsync")]
    /\ UNCHANGED DaemonVars

\* "device_file.close(); device_file = None": when close raises, the variable
\* keeps the file object, whose descriptor is released all the same
FI_Close(outcome) ==
    /\ fl.pc = "close"
    /\ fl' = [fl EXCEPT !.pc = "sync",
                        !.device_file = IF outcome = "ok" THEN None ELSE @,
                        !.handle = "closed",
                        !.closes = @ + 1,
                        !.log = Append(@, "close")]
    /\ UNCHANGED DaemonVars

\* a sync whose failure is an error of flash_image
FI_Sync_fatal(outcome) ==
    /\ fl.pc = "sync"
    /\ fl' = [fl EXCEPT !.pc = "finally",
                        !.sync_failed = outcome # "ok",
                        !.exc = IF outcome = "ok" THEN @ ELSE IOError,
                        !.log = Append(@, "sync")]
    /\ UNCHANGED DaemonVars

\* subprocess.run(['sync'], timeout=30): a non-zero exit code, TimeoutExpired,
\* FileNotFoundError and any other exception are warnings
FI_Sync(outcome) ==
    /\ fl.pc = "sync"
    /\ fl' = [fl EXCEPT !.pc = "finally",
                        !.sync_failed = outcome # "ok",
                        !.log = Append(@, "sync")]
    /\ UNCHANGED DaemonVars

\* a finally block that leaves the device file to the garbage collector
FinallyBlock_noClose(f) ==
    [f EXCEPT !.pc = IF f.exc = None THEN "returned" ELSE "raised"]

\* "finally: if device_file: device_file.close()", then flash_image returns or
\* the exception goes to the caller
FinallyBlock(f) ==
    [f EXCEPT !.pc = IF f.exc = None THEN "returned" ELSE "raised",
              !.handle = IF f.device_file # None THEN "closed" ELSE @,
              !.closes = IF f.device_file # None THEN @ + 1 ELSE @]

FI_Finally ==
    /\ fl.pc = "finally"
    /\ fl' = FinallyBlock(fl)
    /\ UNCHANGED DaemonVars

\* -------------------------------------------------------------- run_daemon
\* a port id the configuration may name although no such port exists ("9-9")
AbsentPort == <<9, 9>>

\* the order of port strings under sorted(): "1-1" < "1-2" < "1-2.1"
RECURSIVE PortLess(_, _)
PortLess(a, b) ==
    IF a = <<>> THEN b # <<>>
    ELSE IF b = <<>> THEN FALSE
    ELSE IF Head(a) # Head(b) THEN Head(a) < Head(b)
    ELSE PortLess(Tail(a), Tail(b))

\* usb.py find_first_usb_hub: the first port, in sorted order, that has
\* child ports
find_first_usb_hub(ports_data) ==
    LET hubs == { p \in DOMAIN ports_data :
                    \E q \in DOMAIN ports_data : StartsWithDot(q, p) }
    IN IF hubs = {} THEN None
       ELSE CHOOSE p \in hubs : \A q \in hubs \ {p} : PortLess(p, q)

find_monitor_port(ports_data, config_port) ==
    IF config_port # None
    THEN (IF config_port \in DOMAIN ports_data THEN config_port ELSE None)
    ELSE find_first_usb_hub(ports_data)

\* cleanup_image_mmap: close() if _image_mmap is set, then _image_mmap = None;
\* closes counts the calls of close()
cleanup_image_mmap(d) == IF image_mmap THEN [d EXCEPT !.closes = @ + 1] ELSE d

\* load_config: FileNotFoundError or ValueError ends run_daemon with 1
LoadConfig ==
    /\ daemon.pc = "load_config"
    /\ daemon' = IF daemon.config_ok
                 THEN [daemon EXCEPT !.pc = "create_image_mmap"]
                 ELSE [daemon EXCEPT !.pc = "returned", !.exit_code = 1]
    /\ UNCHANGED <<usb, now, stable_delay, image_mmap, port_states, tasks, boots,
                   epoch, fl, call>>

\* create_image_mmap, "except IOError": warning and _image_mmap = None
CreateImageMmap ==
    /\ daemon.pc = "create_image_mmap"
    /\ image_mmap' = daemon.mappable
    /\ daemon' = [daemon EXCEPT !.pc = "find_monitor_port"]
    /\ UNCHANGED <<usb, now, stable_delay, port_states, tasks, boots, epoch, fl, call>>

\* enumerate_all_usb_ports and find_monitor_port: a RuntimeError of the
\* enumeration goes to "except Exception" (return 1); without a monitor port
\* cleanup_image_mmap and return 1; else monitor_devices is entered, creates
\* the executor and tests the flag for the first time
FindMonitorPort ==
    /\ daemon.pc = "find_monitor_port"
    /\ IF ~usb.sysfs
       THEN /\ daemon' = [daemon EXCEPT !.pc = "returned", !.exit_code = 1]
            /\ UNCHANGED image_mmap
       ELSE IF find_monitor_port(enumerate_all_usb_ports, daemon.config_port) = None
       THEN /\ daemon' = [cleanup_image_mmap(daemon) EXCEPT !.pc = "returned",
                                                            !.exit_code = 1]
            /\ image_mmap' = FALSE
       ELSE /\ daemon' = [daemon EXCEPT !.executor = "running",
                                        !.pc = LoopTest(daemon)]
            /\ UNCHANGED image_mmap
    /\ UNCHANGED <<usb, now, stable_delay, port_states, tasks, boots, epoch, fl, call>>

\* _signal_handler (SIGTERM, SIGINT), once the handlers are installed
SignalHandler ==
    /\ daemon.pc \notin {"load_config", "returned"}
    /\ ~daemon.shutdown_requested
    /\ daemon' = [daemon EXCEPT !.shutdown_requested = TRUE]
    /\ UNCHANGED <<usb, now, stable_delay, image_mmap, port_states, tasks, boots,
                   epoch, fl, call>>

\* an exception that "except Exception" of the cycle does not catch leaves
\* the loop through the finally block
LoopRaises ==
    /\ daemon.pc = "body"
    /\ daemon' = [daemon EXCEPT !.pc = "finally", !.raised = TRUE]
    /\ UNCHANGED <<usb, now, stable_delay, image_mmap, port_states, tasks, boots,
                   epoch, fl, call>>

\* the finally block of monitor_devices: _flash_executor.shutdown(wait=False),
\* which leaves the queued and running work items alone, then
\* cleanup_image_mmap
MonitorFinally ==
    /\ daemon.pc = "finally"
    /\ daemon' = [cleanup_image_mmap(daemon) EXCEPT !.executor = "shutdown",
                                                    !.pc = "cleanup"]
    /\ image_mmap' = FALSE
    /\ UNCHANGED <<usb, now, stable_delay, port_states, tasks, boots, epoch, fl, call>>

\* the finally block of run_daemon: cleanup_image_mmap again, then return 0,
\* or 1 from "except Exception"
RunDaemonFinally ==
    /\ daemon.pc = "cleanup"
    /\ daemon' = [cleanup_image_mmap(daemon) EXCEPT
                      !.pc = "returned",
                      !.exit_code = IF daemon.raised THEN 1 ELSE 0]
    /\ image_mmap' = FALSE
    /\ UNCHANGED <<usb, now, stable_delay, port_states, tasks, boots, epoch, fl, call>>

\* ------------------------------------------------- usb.py on port strings
\* Port ids written out character by character: <<"1", "-", "2", ".", "1">>
\* is "1-2.1". Device records carry vendor_id, product_id and block_devices;
\* manufacturer, product and serial are read and merged like product_id.
DigitChars == <<"0", "1", "2", "3", "4", "5", "6", "7", "8", "9">>

\* str(n), n >= 0
RECURSIVE FormatInt(_)
FormatInt(n) ==
    IF n < 10 THEN <<DigitChars[n + 1]>>
    ELSE FormatInt(n \div 10) \o <<DigitChars[(n % 10) + 1]>>

\* s.startswith(prefix)
startswith(s, prefix) ==
    Len(s) >= Len(prefix) /\ SubSeq(s, 1, Len(prefix)) = prefix

\* s.find(sub) + 1: the position of the first occurrence, 0 when there is none
Find(s, sub) ==
    LET hits == { i \in 1..(Len(s) - Len(sub) + 1) :
                    SubSeq(s, i, i + Len(sub) - 1) = sub }
    IN IF hits = {} THEN 0 ELSE CHOOSE i \in hits : \A j \in hits : i <= j

\* s.split(sep)[0] and s.split(sep, 1)[0]
SplitHead(s, sep) ==
    IF Find(s, <<sep>>) = 0 THEN s ELSE SubSeq(s, 1, Find(s, <<sep>>) - 1)

\* s.replace(old, new, 1)
Replace1(s, old, new) ==
    IF Find(s, old) = 0 THEN s
    ELSE SubSeq(s, 1, Find(s, old) - 1) \o new
         \o SubSeq(s, Find(s, old) + Len(old), Len(s))

\* f"{bus_num}-{port_num}" and f"{parent_port_str}.{port_num}"
PortStr(bus_num, parent_port_str, port_num) ==
    IF parent_port_str # <<>>
    THEN parent_port_str \o <<".">> \o FormatInt(port_num)
    ELSE FormatInt(bus_num) \o <<"-">> \o FormatInt(port_num)

\* the port string of the coordinate <<bus, port, port, ...>>
RECURSIVE PortString(_)
PortString(t) ==
    IF Len(t) = 2 THEN PortStr(t[1], <<>>, t[2])
    ELSE PortStr(t[1], PortString(SubSeq(t, 1, Len(t) - 1)), t[Len(t)])

\* a walk that records the ports of a hub without descending into the hubs
\* attached to them
RECURSIVE EnumerateFrom_flat(_, _, _, _, _)
EnumerateFrom_flat(sysfs, bus_num, parent_path, parent_port_str, port_num) ==
    IF port_num > sysfs[parent_path].maxchild THEN EmptyDict
    ELSE LET port_str == PortStr(bus_num, parent_port_str, port_num)
             here == IF port_str \in DOMAIN sysfs
                     THEN port_str :> sysfs[port_str].info
                     ELSE port_str :> EmptyPort
         IN Update(here, EnumerateFrom_flat(sysfs, bus_num, parent_path,
                                            parent_port_str, port_num + 1))

\* the for loop of _enumerate_ports_recursive from port_num on; sysfs maps
\* the names in /sys/bus/usb/devices to [maxchild, info]
RECURSIVE EnumerateFrom(_, _, _, _, _)
EnumerateFrom(sysfs, bus_num, parent_path, parent_port_str, port_num) ==
    IF port_num > sysfs[parent_path].maxchild THEN EmptyDict
    ELSE LET port_str == PortStr(bus_num, parent_port_str, port_num)
             here == IF port_str \in DOMAIN sysfs
                     THEN Update(port_str :> sysfs[port_str].info,
                                 EnumerateFrom(sysfs, bus_num, port_str, port_str, 1))
                     ELSE port_str :> EmptyPort
         IN Update(here, EnumerateFrom(sysfs, bus_num, parent_path,
                                       parent_port_str, port_num + 1))

\* usb.py _enumerate_ports_recursive
_enumerate_ports_recursive(sysfs, bus_num, parent_path, parent_port_str) ==
    EnumerateFrom(sysfs, bus_num, parent_path, parent_port_str, 1)

\* the walk of enumerate_all_usb_ports over the bus entries, the names
\* "usb<number>" of sysfs, before the unification (the port strings of
\* different buses are different)
RawPorts(sysfs) ==
    LET bus_entries == { name \in DOMAIN sysfs :
                           /\ startswith(name, <<"u", "s", "b">>)
                           /\ int(SubSeq(name, 4, Len(name))).raised = None }
        PortsOf(name) ==
            _enumerate_ports_recursive(sysfs, int(SubSeq(name, 4, Len(name))).value,
                                       name, <<>>)
        keys == UNION { DOMAIN PortsOf(name) : name \in bus_entries }
    IN [ p \in keys |->
           PortsOf(CHOOSE name \in bus_entries : p \in DOMAIN PortsOf(name))[p] ]

\* usb.py _is_hub
_is_hub(port_str, ports_data) ==
    \E p \in DOMAIN ports_data : startswith(p, port_str \o <<".">>)

\* int(port_str.split('-')[0])
BusNum(port_str) == int(SplitHead(port_str, "-"))

\* port_str.replace(f"{bus_num}-", f"{usb3_bus}-", 1)
Usb3Port(port_str) ==
    Replace1(port_str, FormatInt(BusNum(port_str).value) \o <<"-">>,
             FormatInt(BusNum(port_str).value + 1) \o <<"-">>)

\* usb.py _build_hub_relations: USB 2.0 hub -> USB 3.0 hub
_build_hub_relations(raw_ports) ==
    LET related ==
            { p \in DOMAIN raw_ports :
                /\ BusNum(p).raised = None
                /\ BusNum(p).value % 2 # 0
                /\ _is_hub(p, raw_ports)
                /\ Usb3Port(p) \in DOMAIN raw_ports
                /\ raw_ports[Usb3Port(p)].vendor_id = raw_ports[p].vendor_id
                /\ raw_ports[Usb3Port(p)].vendor_id # None
                /\ _is_hub(Usb3Port(p), raw_ports) }
    IN [ p \in related |-> Usb3Port(p) ]

\* usb.py _find_usb2_counterpart (the relations of the maps used here never
\* give one USB 3.0 hub to two USB 2.0 hubs)
_find_usb2_counterpart(usb3_port_str, hub_relations) ==
    LET usb3_hub == SplitHead(usb3_port_str, ".")
        found == { h \in DOMAIN hub_relations : hub_relations[h] = usb3_hub }
    IN IF BusNum(usb3_port_str).raised # None THEN None
       ELSE IF BusNum(usb3_port_str).value % 2 # 0 THEN None
       ELSE IF found = {} THEN None
       ELSE IF Find(usb3_port_str, <<".">>) # 0
            THEN Replace1(usb3_port_str, usb3_hub, CHOOSE h \in found : TRUE)
            ELSE CHOOSE h \in found : TRUE

\* usb.py _find_usb3_counterpart
_find_usb3_counterpart(usb2_port_str, hub_relations) ==
    LET usb2_hub == SplitHead(usb2_port_str, ".") IN
    IF BusNum(usb2_port_str).raised # None THEN None
    ELSE IF BusNum(usb2_port_str).value % 2 = 0 THEN None
    ELSE IF usb2_hub \notin DOMAIN hub_relations THEN None
    ELSE IF Find(usb2_port_str, <<".">>) # 0
         THEN Replace1(usb2_port_str, usb2_hub, hub_relations[usb2_hub])
         ELSE hub_relations[usb2_hub]

\* sorted(set) of block device paths
SortedDevices(S) ==
    IF S = {} THEN <<>>
    ELSE IF S = {SDX} THEN <<SDX>>
    ELSE IF S = {SDY} THEN <<SDY>>
    ELSE <<SDX, SDY>>

\* usb.py _merge_port_info: "usb3 value or usb2 value", the block devices of
\* both, sorted
_merge_port_info(usb2_info, usb3_info) ==
    [vendor_id |-> IF usb3_info.vendor_id # None THEN usb3_info.vendor_id
                   ELSE usb2_info.vendor_id,
     product_id |-> IF usb3_info.product_id # None THEN usb3_info.product_id
                    ELSE usb2_info.product_id,
     block_devices |-> SortedDevices(Range(usb2_info.block_devices)
                                     \cup Range(usb3_info.block_devices))]

\* a unification that keeps the USB 3.0 duplicates and appends their block
\* devices to the USB 2.0 port
unify_ports_appending(raw_ports) ==
    LET usb3(p) == _find_usb3_counterpart(p, _build_hub_relations(raw_ports)) IN
    [ p \in DOMAIN raw_ports |->
        IF usb3(p) # None /\ usb3(p) \in DOMAIN raw_ports
        THEN [raw_ports[p] EXCEPT !.block_devices = @ \o raw_ports[usb3(p)].block_devices]
        ELSE raw_ports[p] ]

\* the loop of unify_ports over the ports still to visit; st is
\* [unified, processed_usb3_ports]
RECURSIVE UnifyLoop(_, _, _, _)
UnifyLoop(raw_ports, hub_relations, todo, st) ==
    IF todo = {} THEN st.unified
    ELSE LET port_str == CHOOSE p \in todo : TRUE
             rest == todo \ {port_str}
             usb2_port == _find_usb2_counterpart(port_str, hub_relations)
             usb3_port == _find_usb3_counterpart(port_str, hub_relations)
         IN IF BusNum(port_str).raised # None
            THEN UnifyLoop(raw_ports, hub_relations, rest,
                           [st EXCEPT !.unified = Put(@, port_str, raw_ports[port_str])])
            ELSE IF BusNum(port_str).value % 2 = 0 /\ usb2_port # None
            THEN UnifyLoop(raw_ports, hub_relations, rest,
                           [st EXCEPT !.processed = @ \cup {port_str}])
            ELSE IF port_str \in st.processed
            THEN UnifyLoop(raw_ports, hub_relations, rest, st)
            ELSE IF usb3_port # None /\ usb3_port \in DOMAIN raw_ports
            THEN UnifyLoop(raw_ports, hub_relations, rest,
                           [unified |-> Put(st.unified, port_str,
                                            _merge_port_info(raw_ports[port_str],
                                                             raw_ports[usb3_port])),
                            processed |-> st.processed \cup {usb3_port}])
            ELSE UnifyLoop(raw_ports, hub_relations, rest,
                           [st EXCEPT !.unified = Put(@, port_str, raw_ports[port_str])])

\* usb.py unify_ports
unify_ports(raw_ports) ==
    UnifyLoop(raw_ports, _build_hub_relations(raw_ports), DOMAIN raw_ports,
              [unified |-> EmptyDict, processed |-> {}])

\* startswith(limit_port) in place of startswith(limit_port + ".")
filter_ports_by_limit_noDot(ports_data, limit_port) ==
    [ p \in { q \in DOMAIN ports_data : startswith(q, limit_port) } |-> ports_data[p] ]

\* usb.py filter_ports_by_limit on port strings
filter_ports_by_limit_str(ports_data, limit_port) ==
    LET keys == { p \in DOMAIN ports_data :
                    p = limit_port \/ startswith(p, limit_port \o <<".">>) }
    IN [ p \in keys |-> ports_data[p] ]

\* ------------------------------------------------------------------ cli.py
RuntimeError == "RuntimeError"
FileNotFoundError == "FileNotFoundError"

\* a one-shot command is called with args; the record also holds what the
\* host will answer: the validators, create_image_mmap, the enumeration, the
\* start of the rpiboot helper, its output and its return code
CliCall(command, args, host) ==
    [pc |-> "main", command |-> command, args |-> args, host |-> host,
     exit_code |-> None]

\* cmd_flash up to the call of flash_image: validate_image_file,
\* validate_block_device, create_image_mmap
CmdFlash ==
    /\ call.pc = "main"
    /\ call.command = "flash"
    /\ IF call.host.image_valid /\ call.host.device_valid /\ call.host.mappable
       THEN /\ call' = [call EXCEPT !.pc = "flash_image"]
            /\ fl' = FlashCall(call.args.block_size, call.host.mounted,
                               call.host.file_size, call.args.non_interactive, None)
       ELSE /\ call' = [call EXCEPT !.pc = "exited", !.exit_code = 1]
            /\ UNCHANGED fl
    /\ UNCHANGED <<usb, now, stable_delay, image_mmap, port_states, tasks, boots,
                   epoch, daemon>>

\* cmd_flash after flash_image: "return 0", or one of the except clauses
CmdFlashReturn ==
    /\ call.pc = "flash_image"
    /\ fl.pc \in {"returned", "raised"}
    /\ call' = [call EXCEPT !.pc = "exited",
                            !.exit_code = IF fl.pc = "returned" THEN 0 ELSE 1]
    /\ UNCHANGED <<usb, now, stable_delay, image_mmap, port_states, tasks, boots,
                   epoch, daemon, fl>>

\* cmd_usb: the enumeration raises (RuntimeError, or anything else), or the
\* ports are filtered by --port (nothing left: return 1), shown in full
\* (--all), or limited to the first hub if there is one
CmdUsb ==
    /\ call.pc = "main"
    /\ call.command = "usb"
    /\ call' = [call EXCEPT
                  !.pc = "exited",
                  !.exit_code =
                      IF call.host.raised # None THEN 1
                      ELSE IF ~call.args.all /\ call.args.port # None
                              /\ filter_ports_by_limit_str(call.host.ports_data,
                                                           call.args.port) = EmptyDict
                      THEN 1
                      ELSE 0]
    /\ UNCHANGED <<usb, now, stable_delay, image_mmap, port_states, tasks, boots,
                   epoch, daemon, fl>>

\* a run_rpiboot that reports every failure as 1
run_rpiboot_one(host) ==
    IF host.popen = None /\ host.interrupted = FALSE /\ host.return_code = 0
       /\ ~host.error_detected
    THEN <<TRUE, 0>> ELSE <<FALSE, 1>>

\* rpiboot.py run_rpiboot: (success, exit_code)
run_rpiboot(host) ==
    IF host.popen # None THEN <<FALSE, 1>>
    ELSE IF host.interrupted THEN <<FALSE, 130>>
    ELSE IF host.return_code # 0 THEN <<FALSE, host.return_code>>
    ELSE IF host.error_detected THEN <<FALSE, 1>>
    ELSE <<TRUE, 0>>

\* cmd_rpiboot: "success, exit_code = run_rpiboot(...); return exit_code"
CmdRpiboot ==
    /\ call.pc = "main"
    /\ call.command = "rpiboot"
    /\ call' = [call EXCEPT !.pc = "exited", !.exit_code = run_rpiboot(call.host)[2]]
    /\ UNCHANGED <<usb, now, stable_delay, image_mmap, port_states, tasks, boots,
                   epoch, daemon, fl>>

\* ----------------------------------------------------------- specification
EmptyMap == [ p \in {} |-> 0 ]

\* run_daemon has loaded a valid configuration, has mapped the image (mapped)
\* or fallen back to None, has found the monitor port and is inside the loop
\* of monitor_devices
MonitoringDaemon(mapped) ==
    [pc |-> "body", config_ok |-> TRUE, mappable |-> mapped,
     config_port |-> monitor_port, shutdown_requested |-> FALSE,
     executor |-> "running", raised |-> FALSE, exit_code |-> None, closes |-> 0,
     late |-> 0]

\* flash_image is not being called
NoFlash == [pc |-> "idle"]

\* no function of usb.py and no command is being called on its own
NoCall == [pc |-> "idle"]

Init ==
    /\ usb = [sysfs |-> TRUE, maxchild |-> 2, dev |-> CanonicalDev]
    /\ now = 0
    /\ stable_delay \in 0..MaxDelay
    /\ image_mmap \in BOOLEAN
    /\ port_states = EmptyMap
    /\ tasks = <<>>
    /\ boots = <<>>
    /\ epoch = [ p \in PORTS |-> ClosedEpoch ]
    /\ daemon = MonitoringDaemon(image_mmap)
    /\ fl = NoFlash
    /\ call = NoCall

Next ==
    \/ Tick
    \/ TickError
    \/ \E i \in DOMAIN tasks : FlashStart(i)
    \/ \E i \in DOMAIN tasks : FlashProgress(i)
    \/ \E i \in DOMAIN tasks : FlashSucceed(i)
    \/ \E i \in DOMAIN tasks : FlashFail(i)
    \/ \E i \in DOMAIN boots : \E outcome \in {"success", "failure", "timeout"} :
          BootReturn(i, outcome)
    \/ \E i \in DOMAIN boots : HelperExit(i)
    \/ \E p \in PORTS : \E info \in Pluggable(p) : Attach(p, info)
    \/ \E n \in 0..2 : SetMaxChild(n)
    \/ \E b \in BOOLEAN : SetSysfs(b)

Spec == Init /\ [][Next]_vars

\* the runs with multi-disk devices: no boot-eligible device is ever plugged
\* in, so no boot task exists, and sysfs stays available
NextMulti ==
    \/ Tick
    \/ \E i \in DOMAIN tasks : FlashStart(i)
    \/ \E i \in DOMAIN tasks : FlashProgress(i)
    \/ \E i \in DOMAIN tasks : FlashSucceed(i)
    \/ \E i \in DOMAIN tasks : FlashFail(i)
    \/ \E p \in PORTS : \E info \in PluggableMulti(p) : Attach(p, info)
    \/ \E n \in 0..2 : SetMaxChild(n)

SpecMulti == Init /\ [][NextMulti]_vars

\* the two-disk runs under fair scheduling of the pool: a two-disk device is
\* plugged into "1-2.1" and pulled again at any time; a pool thread takes the
\* next queued work item, and every call of flash_image goes on until it
\* returns or raises. Nothing is assumed about the pace of the poll loop
PluggableTwoDisk(p) ==
    IF p = Port1 THEN {EmptyPort, OtherDevice(<<SDX, SDY>>)} ELSE {EmptyPort}

NextMultiFair ==
    \/ Tick
    \/ \E i \in DOMAIN tasks : FlashStart(i)
    \/ \E i \in DOMAIN tasks : FlashProgress(i)
    \/ \E i \in DOMAIN tasks : FlashSucceed(i)
    \/ \E i \in DOMAIN tasks : FlashFail(i)
    \/ \E p \in PORTS : \E info \in PluggableTwoDisk(p) : Attach(p, info)

SpecMultiFair ==
    /\ Init
    /\ [][NextMultiFair]_vars
    /\ WF_vars(\E i \in DOMAIN tasks : FlashStart(i))
    /\ WF_vars(\E i \in DOMAIN tasks : FlashProgress(i) \/ FlashSucceed(i) \/ FlashFail(i))

\* the runs with devices on both downstream ports: the hub and sysfs stay and
\* no device is unplugged
NextPair ==
    \/ Tick
    \/ \E i \in DOMAIN tasks : FlashStart(i)
    \/ \E i \in DOMAIN tasks : FlashProgress(i)
    \/ \E i \in DOMAIN tasks : FlashSucceed(i)
    \/ \E i \in DOMAIN tasks : FlashFail(i)
    \/ \E i \in DOMAIN boots : \E outcome \in {"success", "failure", "timeout"} :
          BootReturn(i, outcome)
    \/ \E i \in DOMAIN boots : HelperExit(i)
    \/ \E p \in PORTS : \E info \in PluggablePair(p) : PlugIn(p, info)

SpecPair == Init /\ [][NextPair]_vars

\* the runs in which a pass of the poll loop can come between the key test and
\* the writes of a background task
NextRace ==
    \/ Tick
    \/ \E i \in DOMAIN tasks : FlashStartCheck(i)
    \/ \E i \in DOMAIN tasks : FlashStartWrite(i)
    \/ \E i \in DOMAIN tasks : ProgressCheck(i)
    \/ \E i \in DOMAIN tasks : ProgressWrite(i)
    \/ \E i \in DOMAIN tasks : CompletedCheck(i)
    \/ \E i \in DOMAIN tasks : CompletedWrite(i)
    \/ \E i \in DOMAIN tasks : FlashRaises(i)
    \/ \E i \in DOMAIN tasks : FailedCheck(i)
    \/ \E i \in DOMAIN tasks : FailedWrite(i)
    \/ \E i \in DOMAIN boots : \E outcome \in {"success", "failure", "timeout"} :
          BootCheck(i, outcome)
    \/ \E i \in DOMAIN boots : BootWrite(i)
    \/ \E i \in DOMAIN boots : BootExceptCheck(i)
    \/ \E i \in DOMAIN boots : BootExceptWrite(i)
    \/ \E p \in PORTS : \E info \in Pluggable(p) : Attach(p, info)
    \/ \E n \in 0..2 : SetMaxChild(n)

SpecRace == Init /\ [][NextRace]_vars

\* the first ticks of the daemon with a device already on "1-2.1": every
\* combination of the identity fields _get_usb_device_info reads (each file
\* readable or not) and of the block devices
PortInfos ==
    [vendor_id : {None, "0x0a5c", "0x0781"},
     product_id : {None, "0x2711", "0x2712", "0x5567"},
     manufacturer : {None, "Generic"},
     product : {None, "Mass Storage"},
     serial : {None, "0001"},
     block_devices : {<<>>, <<SDX>>}]

InitDetect ==
    /\ \E info \in PortInfos :
          usb = [sysfs |-> TRUE, maxchild |-> 2,
                 dev |-> [CanonicalDev EXCEPT ![Port1] = info]]
    /\ now = 0
    /\ stable_delay \in 0..MaxDelay
    /\ image_mmap = TRUE
    /\ port_states = EmptyMap
    /\ tasks = <<>>
    /\ boots = <<>>
    /\ epoch = [ p \in PORTS |-> ClosedEpoch ]
    /\ daemon = MonitoringDaemon(TRUE)
    /\ fl = NoFlash
    /\ call = NoCall

SpecDetect == InitDetect /\ [][Tick]_vars

\* the runs with a boot-eligible device or a device without storage plugged
\* into "1-2.1", never unplugged and never showing a block device, under
\* fair scheduling: the poll loop
\* keeps ticking (time.sleep returns), and boot_rpiboot_device returns (its
\* join has a timeout)
PluggableBoot(p) ==
    IF p = Port1 THEN {EmptyPort, RpiDevice, OtherDevice(<<>>)} ELSE {EmptyPort}

NextBoot ==
    \/ Tick
    \/ TickLate
    \/ \E i \in DOMAIN boots : \E outcome \in {"success", "failure", "timeout"} :
          BootReturn(i, outcome)
    \/ \E i \in DOMAIN boots : HelperExit(i)
    \/ \E p \in PORTS : \E info \in PluggableBoot(p) : PlugIn(p, info)

SpecBootFair ==
    /\ Init
    /\ [][NextBoot]_vars
    /\ WF_vars(Tick \/ TickLate)
    /\ WF_vars(\E i \in DOMAIN boots : \E outcome \in {"success", "failure", "timeout"} :
                  BootReturn(i, outcome))

\* ------------------------------------------------- the TUI, side by side
\* "tsflash tui" runs _monitor_devices_tui on its own dict _tui_port_states.
\* In these runs call is that process and call.port_states its dict; the
\* daemon's loop runs next to it on port_states. Both read the same sysfs at
\* the same times, have the same image and stable_delay, and their background
\* tasks end in the same way at the same moments: every step below is the
\* step of the daemon and the corresponding step of the TUI.

\* _tui_port_states = {} at import
TuiCall == [pc |-> "tui", port_states |-> EmptyMap]

\* the stage texts run_rpiboot passes to stage_callback
Stages == {"Waiting for device...", "Boot complete"}

\* one iteration of the for loop of _monitor_devices_tui on its dict ps
TuiPortStep(ps, p, port_info, current_time) ==
    LET port_state == IF p \in DOMAIN ps THEN ps[p] ELSE EmptyDict
        current_state == IF "state" \in DOMAIN port_state
                         THEN port_state.state ELSE NOT_CONNECTED
        block_devices == port_info.block_devices
        is_rpiboot == is_rpiboot_device(port_info)
    IN
    CASE current_state = NOT_CONNECTED ->
            IF block_devices # <<>> THEN
                Put(ps, p, [state |-> WAITING, block_devices |-> block_devices,
                            detected_time |-> current_time, progress |-> EmptyDict,
                            error |-> None])
            ELSE IF is_rpiboot THEN
                Put(ps, p, [state |-> BOOTING, block_devices |-> <<>>,
                            detected_time |-> current_time, progress |-> EmptyDict,
                            error |-> None, boot_stage |-> "Starting rpiboot..."])
            ELSE IF port_info.vendor_id # None \/ port_info.product_id # None THEN
                Put(ps, p, [state |-> UNKNOWN, block_devices |-> <<>>,
                            detected_time |-> current_time, progress |-> EmptyDict,
                            error |-> None])
            ELSE ps
      [] current_state = BOOTING ->
            IF block_devices # <<>>
            THEN [ps EXCEPT ![p] = Update(@, [state |-> WAITING,
                                              block_devices |-> block_devices,
                                              detected_time |-> current_time])]
            ELSE ps
      [] current_state = WAITING ->
            LET ps1 == [ps EXCEPT ![p] = Update(@, [block_devices |-> block_devices])] IN
            IF block_devices = <<>> THEN
                [ps1 EXCEPT ![p] = Update(@, [state |-> NOT_CONNECTED])]
            ELSE IF current_time - ps1[p].detected_time >= stable_delay THEN
                IF ~image_mmap
                THEN [ps1 EXCEPT ![p] = Update(@, [state |-> FAILED,
                                                   error |-> "Image not available"])]
                ELSE [ps1 EXCEPT ![p] = Update(@, [state |-> FLASHING,
                                                   progress |-> FreshProgress(current_time)])]
            ELSE ps1
      [] current_state = FLASHING ->
            [ps EXCEPT ![p] = Update(@, [block_devices |-> block_devices])]
      [] current_state \in {COMPLETED, FAILED} ->
            IF block_devices = <<>>
            THEN Pop(ps, p)
            ELSE [ps EXCEPT ![p] = Update(@, [block_devices |-> block_devices])]
      [] current_state = UNKNOWN ->
            IF block_devices # <<>>
            THEN [ps EXCEPT ![p] = Update(@, [state |-> WAITING,
                                              block_devices |-> block_devices,
                                              detected_time |-> current_time])]
            ELSE IF port_info.vendor_id = None /\ port_info.product_id = None
                 THEN Pop(ps, p)
                 ELSE ps

\* the for loop of _monitor_devices_tui over downstream_ports
RECURSIVE TuiPorts(_, _, _, _)
TuiPorts(ps, downstream_ports, i, current_time) ==
    IF i > Len(PortOrder) THEN ps
    ELSE LET p == PortOrder[i]
             ps1 == IF p \in DOMAIN downstream_ports /\ p # monitor_port
                    THEN TuiPortStep(ps, p, downstream_ports[p], current_time)
                    ELSE ps
         IN TuiPorts(ps1, downstream_ports, i + 1, current_time)

\* the body of one iteration of the while loop of _monitor_devices_tui, with
\* its "Clean up ports that no longer exist"
TuiTickResult(ps) ==
    LET current_time == now
        ports_data == enumerate_all_usb_ports
        downstream_ports == filter_ports_by_limit(ports_data, monitor_port)
        current_port_strings == DOMAIN downstream_ports
        ps1 == TuiPorts(ps, downstream_ports, 1, current_time)
    IN [ q \in DOMAIN ps1 \cap current_port_strings |-> ps1[q] ]

\* flash_device on the dict it is given, up to "def progress_callback"
flash_device_begin(ps, p, t) ==
    LET ps1 == IF p \notin DOMAIN ps
               THEN Put(ps, p, NewEntry(FLASHING, <<>>, t))
               ELSE ps
    IN [ps1 EXCEPT ![p] = Update(@, [state |-> FLASHING, progress |-> FreshProgress(t)])]

\* flash_device: "Mark as completed"
flash_device_completed(ps, p) ==
    IF p \in DOMAIN ps
    THEN [ps EXCEPT ![p] = Update(@, [state |-> COMPLETED,
                                      progress |-> Update(ps[p].progress, [percent |-> 100]),
                                      error |-> None])]
    ELSE ps

\* flash_device: "Mark as failed"
flash_device_failed(ps, p) ==
    IF p \in DOMAIN ps
    THEN [ps EXCEPT ![p] = Update(@, [state |-> FAILED, error |-> "flash error"])]
    ELSE ps

\* handle_rpiboot_completion of monitor_devices after boot_rpiboot_device
handle_rpiboot_completion(states, port, success) ==
    IF port \in DOMAIN states /\ ~success
    THEN [states EXCEPT ![port] = Update(@, [state |-> FAILED, error |-> "rpiboot failed"])]
    ELSE states

\* handle_rpiboot_completion of _monitor_devices_tui after boot_rpiboot_device
tui_handle_rpiboot_completion(states, port, success) ==
    IF port \in DOMAIN states
    THEN IF success
         THEN states
         ELSE [states EXCEPT ![port] = Update(@, [state |-> FAILED,
                                                  error |-> "rpiboot failed"])]
    ELSE states

\* a stage_callback that writes without looking for the entry
stage_callback_create(states, port, stage) ==
    IF port \in DOMAIN states
    THEN [states EXCEPT ![port] = Update(@, [boot_stage |-> stage])]
    ELSE Put(states, port, [boot_stage |-> stage])

\* stage_callback of the TUI's handle_rpiboot_completion
stage_callback(states, port, stage) ==
    IF port \in DOMAIN states
    THEN [states EXCEPT ![port] = Update(@, [boot_stage |-> stage])]
    ELSE states

\* both loops make one pass at the same time over the same enumeration
TuiTick ==
    /\ daemon.pc = "body"
    /\ usb.sysfs
    /\ now < MaxTime
    /\ JoinsInTime
    /\ LET S == TickResult IN
        /\ Len(S.tasks) <= MaxTasks
        /\ Len(S.boots) <= MaxBoots
        /\ port_states' = S.ps
        /\ tasks' = S.tasks
        /\ boots' = S.boots
        /\ epoch' = S.epoch
    /\ call' = [call EXCEPT !.port_states = TuiTickResult(@)]
    /\ now' = now + poll_interval
    /\ daemon' = [daemon EXCEPT !.pc = LoopTest(daemon)]
    /\ UNCHANGED <<usb, stable_delay, image_mmap, fl>>

\* a pool thread of each process takes the work item
TuiFlashStart(i) ==
    /\ tasks[i].pc = "queued"
    /\ Cardinality(Running(tasks)) + Cardinality(QueuedBefore(tasks, i)) < max_workers
    /\ port_states' = flash_device_begin(port_states, tasks[i].port, now)
    /\ call' = [call EXCEPT !.port_states = flash_device_begin(@, tasks[i].port, now)]
    /\ tasks' = [tasks EXCEPT ![i].pc = "running"]
    /\ UNCHANGED <<usb, now, stable_delay, image_mmap, boots, epoch, daemon, fl>>

\* flash_image writes one chunk in each process and calls progress_callback
TuiFlashProgress(i) ==
    /\ tasks[i].pc = "running"
    /\ tasks[i].offset < FileSize
    /\ image_mmap
    /\ LET bytes_written == Min(tasks[i].offset + ChunkSize, FileSize)
           percent == (bytes_written * 100) \div FileSize
       IN /\ tasks' = [tasks EXCEPT ![i].offset = bytes_written]
          /\ port_states' = progress_callback(port_states, tasks[i].port,
                                              bytes_written, FileSize, percent)
          /\ call' = [call EXCEPT !.port_states =
                         progress_callback(@, tasks[i].port, bytes_written, FileSize, percent)]
    /\ UNCHANGED <<usb, now, stable_delay, image_mmap, boots, epoch, daemon, fl>>

\* flash_image returns in each process
TuiFlashSucceed(i) ==
    /\ tasks[i].pc = "running"
    /\ tasks[i].offset >= FileSize
    /\ port_states' = flash_device_completed(port_states, tasks[i].port)
    /\ call' = [call EXCEPT !.port_states = flash_device_completed(@, tasks[i].port)]
    /\ tasks' = Finish(tasks, i, "succeeded")
    /\ UNCHANGED <<usb, now, stable_delay, image_mmap, boots, epoch, daemon, fl>>

\* flash_image raises in each process
TuiFlashFail(i) ==
    /\ tasks[i].pc = "running"
    /\ port_states' = flash_device_failed(port_states, tasks[i].port)
    /\ call' = [call EXCEPT !.port_states = flash_device_failed(@, tasks[i].port)]
    /\ tasks' = Finish(tasks, i, "failed")
    /\ UNCHANGED <<usb, now, stable_delay, image_mmap, boots, epoch, daemon, fl>>

\* boot_rpiboot_device returns the same result in each process
TuiBootReturn(i, outcome) ==
    /\ boots[i].pc = "supervising"
    /\ IF outcome = "timeout"
       THEN now = boots[i].started + BootTimeout
       ELSE now < boots[i].started + BootTimeout
    /\ port_states' = handle_rpiboot_completion(port_states, boots[i].port,
                                                outcome = "success")
    /\ call' = [call EXCEPT !.port_states =
                   tui_handle_rpiboot_completion(@, boots[i].port, outcome = "success")]
    /\ boots' = IF outcome = "timeout"
                THEN [boots EXCEPT ![i].pc = "abandoned"]
                ELSE RemoveAt(boots, i)
    /\ UNCHANGED <<usb, now, stable_delay, image_mmap, tasks, epoch, daemon, fl>>

\* rpiboot prints a line that run_rpiboot reports: the TUI's stage_callback
\* runs, the daemon passed none; the helper thread goes on reading after
\* boot_rpiboot_device has given up waiting for it
TuiStage(i, stage) ==
    /\ boots[i].pc \in {"supervising", "abandoned"}
    /\ call' = [call EXCEPT !.port_states = stage_callback(@, boots[i].port, stage)]
    /\ call' # call
    /\ UNCHANGED <<usb, now, stable_delay, image_mmap, port_states, tasks, boots,
                   epoch, daemon, fl>>

InitTui ==
    /\ usb = [sysfs |-> TRUE, maxchild |-> 2, dev |-> CanonicalDev]
    /\ now = 0
    /\ stable_delay \in 0..MaxDelay
    /\ image_mmap \in BOOLEAN
    /\ port_states = EmptyMap
    /\ tasks = <<>>
    /\ boots = <<>>
    /\ epoch = [ p \in PORTS |-> ClosedEpoch ]
    /\ daemon = MonitoringDaemon(image_mmap)
    /\ fl = NoFlash
    /\ call = TuiCall

NextTui ==
    \/ TuiTick
    \/ \E i \in DOMAIN tasks : TuiFlashStart(i)
    \/ \E i \in DOMAIN tasks : TuiFlashProgress(i)
    \/ \E i \in DOMAIN tasks : TuiFlashSucceed(i)
    \/ \E i \in DOMAIN tasks : TuiFlashFail(i)
    \/ \E i \in DOMAIN boots : \E outcome \in {"success", "failure", "timeout"} :
          TuiBootReturn(i, outcome)
    \/ \E i \in DOMAIN boots : \E stage \in Stages : TuiStage(i, stage)
    \/ \E i \in DOMAIN boots : HelperExit(i)
    \/ \E p \in PORTS : \E info \in Pluggable(p) : Attach(p, info)
    \/ \E n \in 0..2 : SetMaxChild(n)

SpecTui == InitTui /\ [][NextTui]_vars

\* the whole of run_daemon, from load_config to its return: a configuration
\* file that is valid or not, naming the monitor port, a port that does not
\* exist or none; an image that can be mapped or not; sysfs and the hub there
\* or not; a one-disk device that comes and goes on "1-2.1"
PluggableDaemon(p) ==
    IF p = Port1 THEN {EmptyPort, OtherDevice(<<SDX>>)} ELSE {EmptyPort}

InitDaemon ==
    /\ usb \in { [sysfs |-> TRUE, maxchild |-> 2, dev |-> CanonicalDev],
                 [sysfs |-> TRUE, maxchild |-> 0, dev |-> CanonicalDev],
                 [sysfs |-> FALSE, maxchild |-> 0, dev |-> CanonicalDev] }
    /\ now = 0
    /\ stable_delay \in 0..MaxDelay
    /\ image_mmap = FALSE
    /\ port_states = EmptyMap
    /\ tasks = <<>>
    /\ boots = <<>>
    /\ epoch = [ p \in PORTS |-> ClosedEpoch ]
    /\ \E ok, mappable \in BOOLEAN :
       \E config_port \in {None, monitor_port, AbsentPort} :
          daemon = [pc |-> "load_config", config_ok |-> ok, mappable |-> mappable,
                    config_port |-> config_port, shutdown_requested |-> FALSE,
                    executor |-> "none", raised |-> FALSE, exit_code |-> None,
                    closes |-> 0, late |-> 0]
    /\ fl = NoFlash
    /\ call = NoCall

NextDaemon ==
    \/ LoadConfig
    \/ CreateImageMmap
    \/ FindMonitorPort
    \/ SignalHandler
    \/ Tick
    \/ LoopRaises
    \/ MonitorFinally
    \/ RunDaemonFinally
    \/ \E i \in DOMAIN tasks : FlashStart(i)
    \/ \E i \in DOMAIN tasks : FlashProgress(i)
    \/ \E i \in DOMAIN tasks : FlashSucceed(i)
    \/ \E i \in DOMAIN tasks : FlashFail(i)
    \/ \E p \in PORTS : \E info \in PluggableDaemon(p) : Attach(p, info)

SpecDaemon == InitDaemon /\ [][NextDaemon]_vars

\* one call of flash_image, for every block size, mount list and image size
InitFlash ==
    /\ usb = [sysfs |-> TRUE, maxchild |-> 2, dev |-> CanonicalDev]
    /\ now = 0
    /\ stable_delay = 0
    /\ image_mmap = TRUE
    /\ port_states = EmptyMap
    /\ tasks = <<>>
    /\ boots = <<>>
    /\ epoch = [ p \in PORTS |-> ClosedEpoch ]
    /\ daemon = MonitoringDaemon(TRUE)
    /\ \E block_size \in BlockSizes : \E mounted \in MountLists :
       \E file_size \in 1..FileSize : \E non_interactive \in BOOLEAN :
       \E callback \in {None, "progress_callback"} :
          fl = FlashCall(block_size, mounted, file_size, non_interactive, callback)
    /\ call = NoCall

NextFlash ==
    \/ FI_ParseBlockSize
    \/ FI_Unmount
    \/ \E outcome \in {"ok", PermissionError, IOError} : FI_Open(outcome)
    \/ \E outcome \in {"ok", IOError, ValueError} : FI_WriteChunk(outcome)
    \/ \E outcome \in {"ok", Exception} : FI_Callback(outcome)
    \/ \E outcome \in {"ok", "OSError"} : FI_WriteEnd(outcome)
    \/ \E outcome \in {"ok", IOError} : FI_Close(outcome)
    \/ \E outcome \in {"ok", "returncode", "TimeoutExpired", FileNotFoundError, Exception} :
          FI_Sync(outcome)
    \/ FI_Finally

SpecFlash == InitFlash /\ [][NextFlash]_vars

\* one enumeration of a synthetic device tree, or one unification of a raw
\* port map given as such, followed by a second unification or by a filter
UsbBus(n) == <<"u", "s", "b">> \o FormatInt(n)

Hub(vendor_id, maxchild) ==
    [present |-> TRUE, maxchild |-> maxchild,
     info |-> [HubDevice EXCEPT !.vendor_id = vendor_id]]

Leaf(info) == [present |-> TRUE, maxchild |-> 0, info |-> info]

\* no directory at the coordinate
Absent == [present |-> FALSE, maxchild |-> 0, info |-> EmptyPort]

\* what a synthetic tree may hold at each coordinate of the buses 1 and 2
TreeCoordinates == {<<1, 1>>, <<2, 1>>, <<1, 1, 1>>, <<1, 1, 2>>, <<2, 1, 1>>, <<2, 1, 2>>}

TreeOptions(t) ==
    IF Len(t) = 2
    THEN {Absent, Leaf(OtherDevice(IF t[1] = 1 THEN <<SDX>> ELSE <<SDY>>))}
         \cup { Hub("0x05e3", n) : n \in 1..MaxChild }
         \cup (IF t[1] = 1 THEN {Hub("0x2109", 1)} ELSE {})
    ELSE IF t[3] = 1
    THEN {Absent, Hub("0x05e3", 1),
          Leaf(OtherDevice(IF t[1] = 1 THEN <<SDX>> ELSE <<SDY>>))}
    ELSE {Absent, Leaf(OtherDevice(IF t[1] = 1 THEN <<>> ELSE <<SDY>>))}

\* /sys/bus/usb/devices of a tree: the bus entries usb1 and usb2 with m1 and
\* m2 root ports, an entry "usbx" without a bus number, and the devices of d
Sysfs(m1, m2, d) ==
    LET present == { t \in TreeCoordinates : d[t].present }
        names == {UsbBus(1), UsbBus(2), <<"u", "s", "b", "x">>}
                 \cup { PortString(t) : t \in present }
    IN [ name \in names |->
           IF name = UsbBus(1) THEN Hub(None, m1)
           ELSE IF name = UsbBus(2) THEN Hub(None, m2)
           ELSE IF name = <<"u", "s", "b", "x">> THEN Hub(None, 1)
           ELSE d[CHOOSE t \in present : PortString(t) = name] ]

\* the raw port maps given as such: any ports out of these, each empty, a hub
\* or a disk
RawKeys ==
    {PortString(<<1, 2>>), PortString(<<1, 20>>), PortString(<<1, 2, 1>>),
     PortString(<<2, 2>>), PortString(<<2, 2, 1>>), <<"x", "-", "1">>}

UsbCall(pc, sysfs, raw) ==
    [pc |-> pc, sysfs |-> sysfs, raw |-> raw, unified |-> EmptyDict,
     again |-> EmptyDict, limit_port |-> <<>>, filtered |-> EmptyDict]

\* enumerate_all_usb_ports walks the bus entries
UsbWalk ==
    /\ call.pc = "sysfs"
    /\ call' = [call EXCEPT !.pc = "raw", !.raw = RawPorts(call.sysfs)]
    /\ UNCHANGED <<usb, now, stable_delay, image_mmap, port_states, tasks, boots,
                   epoch, daemon, fl>>

\* "unified_ports = unify_ports(all_ports)"
UsbUnify ==
    /\ call.pc = "raw"
    /\ call' = [call EXCEPT !.pc = "unified", !.unified = unify_ports(call.raw)]
    /\ UNCHANGED <<usb, now, stable_delay, image_mmap, port_states, tasks, boots,
                   epoch, daemon, fl>>

\* unify_ports applied to its own result
UsbUnifyAgain ==
    /\ call.pc = "unified"
    /\ call' = [call EXCEPT !.pc = "again", !.again = unify_ports(call.unified)]
    /\ UNCHANGED <<usb, now, stable_delay, image_mmap, port_states, tasks, boots,
                   epoch, daemon, fl>>

\* filter_ports_by_limit(ports_data, limit_port) on the unified map
UsbFilter(limit_port) ==
    /\ call.pc = "unified"
    /\ call' = [call EXCEPT !.pc = "filtered", !.limit_port = limit_port,
                            !.filtered = filter_ports_by_limit_str(call.unified,
                                                                   limit_port)]
    /\ UNCHANGED <<usb, now, stable_delay, image_mmap, port_states, tasks, boots,
                   epoch, daemon, fl>>

InitUsb ==
    /\ usb = [sysfs |-> TRUE, maxchild |-> 2, dev |-> CanonicalDev]
    /\ now = 0
    /\ stable_delay = 0
    /\ image_mmap = TRUE
    /\ port_states = EmptyMap
    /\ tasks = <<>>
    /\ boots = <<>>
    /\ epoch = [ p \in PORTS |-> ClosedEpoch ]
    /\ daemon = MonitoringDaemon(TRUE)
    /\ fl = NoFlash
    /\ \/ \E m1 \in {1, MaxChild} : \E m2 \in {0, 1, MaxChild} :
          \E a \in TreeOptions(<<1, 1>>) : \E b \in TreeOptions(<<2, 1>>) :
          \E c \in TreeOptions(<<1, 1, 1>>) : \E d \in TreeOptions(<<1, 1, 2>>) :
          \E e \in TreeOptions(<<2, 1, 1>>) : \E f \in TreeOptions(<<2, 1, 2>>) :
             call = UsbCall("sysfs",
                            Sysfs(m1, m2, <<1, 1>> :> a @@ <<2, 1>> :> b
                                          @@ <<1, 1, 1>> :> c @@ <<1, 1, 2>> :> d
                                          @@ <<2, 1, 1>> :> e @@ <<2, 1, 2>> :> f),
                            EmptyDict)
       \/ \E keys \in SUBSET RawKeys :
          \E raw \in [keys -> {EmptyPort, HubDevice, OtherDevice(<<SDX>>)}] :
             call = UsbCall("raw", EmptyDict, raw)

NextUsb ==
    \/ UsbWalk
    \/ UsbUnify
    \/ UsbUnifyAgain
    \/ \E limit_port \in { PortString(t) : t \in {<<1, 2>>, <<1, 1>>, <<2, 1>>, <<1, 1, 1>>} } :
          UsbFilter(limit_port)

SpecUsb == InitUsb /\ [][NextUsb]_vars

\* one call of a one-shot command: flash, usb or rpiboot
InitCli ==
    /\ usb = [sysfs |-> TRUE, maxchild |-> 2, dev |-> CanonicalDev]
    /\ now = 0
    /\ stable_delay = 0
    /\ image_mmap = TRUE
    /\ port_states = EmptyMap
    /\ tasks = <<>>
    /\ boots = <<>>
    /\ epoch = [ p \in PORTS |-> ClosedEpoch ]
    /\ daemon = MonitoringDaemon(TRUE)
    /\ fl = NoFlash
    /\ \/ \E block_size \in BlockSizes : \E mounted \in MountLists :
          \E file_size \in 1..FileSize : \E non_interactive \in BOOLEAN :
          \E valid \in {<<TRUE, TRUE, TRUE>>, <<FALSE, TRUE, TRUE>>,
                        <<TRUE, FALSE, TRUE>>, <<TRUE, TRUE, FALSE>>} :
             call = CliCall("flash", [block_size |-> block_size,
                                     non_interactive |-> non_interactive],
                            [image_valid |-> valid[1], device_valid |-> valid[2],
                             mappable |-> valid[3], mounted |-> mounted,
                             file_size |-> file_size])
       \/ \E raised \in {None, RuntimeError, Exception} :
          \E keys \in SUBSET {PortString(<<1, 2>>), PortString(<<1, 2, 1>>),
                              PortString(<<1, 20>>)} :
          \E all \in BOOLEAN :
          \E port \in {None, PortString(<<1, 2>>), PortString(<<2, 1>>)} :
             call = CliCall("usb", [all |-> all, port |-> port],
                            [raised |-> raised,
                             ports_data |-> [ p \in keys |-> EmptyPort ]])
       \/ \E popen \in {None, FileNotFoundError, Exception} :
          \E return_code \in {0, 1, 2, 0 - 9} :
          \E error_detected \in BOOLEAN : \E interrupted \in BOOLEAN :
             call = CliCall("rpiboot", [port |-> None],
                            [popen |-> popen, return_code |-> return_code,
                             error_detected |-> error_detected,
                             interrupted |-> interrupted])

NextCli ==
    \/ CmdFlash
    \/ FI_ParseBlockSize
    \/ FI_Unmount
    \/ \E outcome \in {"ok", PermissionError, IOError} : FI_Open(outcome)
    \/ \E outcome \in {"ok", IOError, ValueError} : FI_WriteChunk(outcome)
    \/ \E outcome \in {"ok", "OSError"} : FI_WriteEnd(outcome)
    \/ \E outcome \in {"ok", IOError} : FI_Close(outcome)
    \/ \E outcome \in {"ok", "returncode", "TimeoutExpired", FileNotFoundError, Exception} :
          FI_Sync(outcome)
    \/ FI_Finally
    \/ CmdFlashReturn
    \/ CmdUsb
    \/ CmdRpiboot

SpecCli == InitCli /\ [][NextCli]_vars

TypeOK ==
    /\ now \in 0..MaxTime
    /\ DOMAIN port_states \subseteq PORTS
    /\ Len(tasks) <= MaxTasks

\* ================================================================== claims
\* a step of the poll loop whose enumeration succeeded
TickStep == now' # now /\ usb.sysfs

\* port p is a key of the (filtered) enumeration
Enumerated(p) == usb.sysfs /\ p[3] <= usb.maxchild

Active == {"queued", "running"}

\* the flash tasks (queued or running) of port p
ActiveTasks(p) == { i \in DOMAIN tasks : tasks[i].port = p /\ tasks[i].pc \in Active }

\* C1 (the claim as stated): in every detection epoch in which the port's block
\* devices stay present for at least stable_delay, exactly one tick dispatches:
\* once a tick runs at or after detected_time + stable_delay with the devices
\* unchanged since the epoch began (and the image mapped), the epoch has had
\* exactly one dispatching tick, whatever the flash and boot tasks did
C1_DispatchExactlyOnce ==
    [][ TickStep =>
          \A p \in PORTS :
             ( /\ image_mmap
               /\ epoch[p].open
               /\ epoch[p].steady
               /\ Enumerated(p)
               /\ p \in DOMAIN port_states
               /\ now - port_states[p].detected_time >= stable_delay )
             => epoch'[p].dispatched = 1
      ]_vars

\* C2 (the claim as stated): with stable_delay = 0 the first tick that
\* observes the block device of "1-2.1" leaves the port in FLASHING
C2_FlashingAfterOneTick ==
    [][ ( /\ TickStep
          /\ stable_delay = 0
          /\ image_mmap
          /\ Enumerated(Port1)
          /\ usb.dev[Port1].block_devices = <<SDX>>
          /\ Port1 \notin DOMAIN port_states )
        => ( /\ Port1 \in DOMAIN port_states'
             /\ port_states'[Port1].state = FLASHING )
      ]_vars

\* C2 (amended): with stable_delay = 0 the first tick that observes the block
\* device leaves the port in WAITING with detected_time = that tick's time and
\* dispatches nothing; the tick that finds the port in WAITING with the device
\* still present and the image mapped sets FLASHING and submits the flash task
C2_FlashingAfterTwoTicks ==
    [][ ( /\ TickStep
          /\ stable_delay = 0
          /\ image_mmap
          /\ Enumerated(Port1)
          /\ usb.dev[Port1].block_devices = <<SDX>> )
        => /\ Port1 \notin DOMAIN port_states
              => ( /\ Port1 \in DOMAIN port_states'
                   /\ port_states'[Port1].state = WAITING
                   /\ port_states'[Port1].detected_time = now
                   /\ tasks' = tasks )
           /\ CurrentState(port_states, Port1) = WAITING
              => ( /\ port_states'[Port1].state = FLASHING
                   /\ tasks' = Append(tasks, FlashTask(Port1, SDX)) )
      ]_vars

\* two ticks after the start, the device seen by both: FLASHING, one task queued
C2_Witness ==
    /\ stable_delay = 0
    /\ now = 2
    /\ CurrentState(port_states, Port1) = FLASHING
    /\ port_states[Port1].detected_time = 0
    /\ tasks = <<FlashTask(Port1, SDX)>>

\* C3: in the end-to-end scenario, when the flash task of the port reports
\* success the port's state is COMPLETED, and the tick that then sees the port
\* enumerated without block devices removes "1-2.1" from the map
C3_CompletedThenPurged ==
    [][ /\ \A i \in DOMAIN tasks :
              ( /\ tasks[i].port = Port1
                /\ tasks[i].pc = "running"
                /\ Len(tasks') = Len(tasks)
                /\ tasks'[i].pc = "succeeded" )
              => ( /\ Port1 \in DOMAIN port_states'
                   /\ port_states'[Port1].state = COMPLETED )
        /\ ( /\ TickStep
             /\ CurrentState(port_states, Port1) = COMPLETED
             /\ Enumerated(Port1)
             /\ usb.dev[Port1].block_devices = <<>> )
           => Port1 \notin DOMAIN port_states'
      ]_vars

\* the flash task has reported success, the port is COMPLETED, the device has
\* been removed and the next tick is due
C3_Witness ==
    /\ CurrentState(port_states, Port1) = COMPLETED
    /\ \E i \in DOMAIN tasks : tasks[i].port = Port1 /\ tasks[i].pc = "succeeded"
    /\ Enumerated(Port1)
    /\ usb.dev[Port1].block_devices = <<>>
    /\ now < MaxTime

C4_CompletedOnlyWhenAllSucceeded ==
    \A p \in DOMAIN port_states :
        port_states[p].state = COMPLETED
        => \A i \in DOMAIN tasks :
              (tasks[i].port = p /\ tasks[i].cur) => tasks[i].pc = "succeeded"

\* C5 (the claim as stated): once a flash task dispatched for the port in the
\* current epoch has reported failure, the entry is FAILED with that error
\* until it is purged
C5_FailedStaysFailed ==
    \A p \in DOMAIN port_states :
        (\E i \in DOMAIN tasks :
            tasks[i].port = p /\ tasks[i].cur /\ tasks[i].pc = "failed")
        => ( /\ port_states[p].state = FAILED
             /\ port_states[p].error = "flash error" )

\* C6 (the claim as stated): no two flash tasks, queued or running, target the
\* same block device
C6_OneWriterPerDevice ==
    \A i, j \in DOMAIN tasks :
        ( /\ i # j
          /\ tasks[i].pc \in Active
          /\ tasks[j].pc \in Active )
        => tasks[i].device # tasks[j].device

C8_OneBootTaskPerPort ==
    \A p \in PORTS : Cardinality({ i \in DOMAIN boots : boots[i].port = p }) <= 1

\* C10 (the claim as stated): a step that is not a tick of the poll loop
\* leaves the key set of the port-state map unchanged
C10_OnlyPollLoopChangesKeys ==
    [][ now' = now => DOMAIN port_states' = DOMAIN port_states ]_vars

\* the supervisor of a boot task of port p returns its result in this step
BootResultStep(p) ==
    \E i \in DOMAIN boots :
        /\ boots[i].port = p
        /\ boots[i].pc = "supervising"
        /\ \/ boots' = RemoveAt(boots, i)
           \/ boots' = [boots EXCEPT ![i].pc = "abandoned"]

\* C11 (the claim as stated): a boot task's result changes the port's entry
\* from BOOTING only: when the port is tracked in another state at the moment
\* the boot task returns, the step leaves the port's state and error unchanged
C11_BootResultOnlyFromBooting ==
    [][ \A p \in PORTS :
          ( /\ BootResultStep(p)
            /\ p \in DOMAIN port_states
            /\ port_states[p].state # BOOTING )
          => ( /\ p \in DOMAIN port_states'
               /\ port_states'[p].state = port_states[p].state
               /\ port_states'[p].error = port_states[p].error )
      ]_vars

\* the supervisor of boots[i] returns from boot_rpiboot_device in this step
SupervisorReturns(i) ==
    /\ boots[i].pc = "supervising"
    /\ \/ boots' = RemoveAt(boots, i)
       \/ boots' = [boots EXCEPT ![i].pc = "abandoned"]

\* C12: a supervisor is never in join after started + timeout; when it
\* returns at the timeout, the helper not having finished, the helper thread
\* stays alive (it is not killed), the key set is unchanged and the port, if it
\* is in the map, is FAILED with an error; the later end of the helper thread
\* changes no entry, so the outcome does not depend on the helper terminating
C12_TimeoutMarksFailed ==
    [][ \A i \in DOMAIN boots :
          LET p == boots[i].port IN
          /\ boots[i].pc = "supervising" => now <= boots[i].started + BootTimeout
          /\ ( /\ now = boots[i].started + BootTimeout
               /\ SupervisorReturns(i) )
             => ( /\ boots' = [boots EXCEPT ![i].pc = "abandoned"]
                  /\ DOMAIN port_states' = DOMAIN port_states
                  /\ p \in DOMAIN port_states
                     => ( /\ port_states'[p].state = FAILED
                          /\ port_states'[p].error # None ) )
          /\ ( /\ boots[i].pc = "abandoned"
               /\ boots' = RemoveAt(boots, i) )
             => port_states' = port_states
      ]_vars

\* the join has just timed out: the port is FAILED with the error recorded and
\* the helper thread is still running
C12_Witness ==
    \E i \in DOMAIN boots :
        /\ boots[i].pc = "abandoned"
        /\ now = boots[i].started + BootTimeout
        /\ boots[i].port \in DOMAIN port_states
        /\ port_states[boots[i].port].state = FAILED
        /\ port_states[boots[i].port].error = "rpiboot failed"

\* C13 (the claim as stated): a tick that finds an enumerated port in
\* COMPLETED or FAILED while the port still reports an identity (a vendor or
\* product id) keeps the entry, in the same terminal state
C13_TerminalKeptWhileIdentified ==
    [][ TickStep =>
          \A p \in DOMAIN port_states :
             ( /\ port_states[p].state \in {COMPLETED, FAILED}
               /\ Enumerated(p)
               /\ \/ usb.dev[p].vendor_id # None
                  \/ usb.dev[p].product_id # None )
             => ( /\ p \in DOMAIN port_states'
                  /\ port_states'[p].state = port_states[p].state )
      ]_vars

\* a flash task of port p that was dispatched in an earlier epoch of the port
\* (its epoch has since been closed by a purge or a reset) takes a step
StaleFlashStep(p) ==
    /\ now' = now
    /\ \E i \in DOMAIN tasks :
          /\ tasks[i].port = p
          /\ ~tasks[i].cur
          /\ \/ tasks' = RemoveAt(tasks, i)
             \/ Len(tasks') = Len(tasks) /\ tasks'[i] # tasks[i]

\* the entry of p was made by the poll loop for the device now detected: its
\* detection epoch is open, or it is BOOTING (only the poll loop writes BOOTING)
NewEpochEntry(p) ==
    /\ p \in DOMAIN port_states
    /\ epoch[p].open \/ port_states[p].state = BOOTING

\* C14 (the claim as stated): the tick that re-detects a device on a purged
\* port creates the entry afresh (detected_time = the tick's time, empty
\* progress, no error), and no step of a flash task (start, progress callback,
\* result) or of a boot task launched in an earlier epoch of the port changes
\* the entry the poll loop made for the re-inserted device
C14_NewEpochUntouched ==
    [][ \A p \in PORTS :
          /\ ( /\ TickStep
               /\ p \notin DOMAIN port_states
               /\ p \in DOMAIN port_states' )
             => ( /\ port_states'[p].detected_time = now
                  /\ port_states'[p].progress = EmptyDict
                  /\ port_states'[p].error = None )
          /\ ( /\ StaleFlashStep(p)
               /\ NewEpochEntry(p) )
             => ( /\ p \in DOMAIN port_states'
                  /\ port_states'[p] = port_states[p] )
          /\ \A i \in DOMAIN boots :
                ( /\ boots[i].port = p
                  /\ ~boots[i].cur
                  /\ SupervisorReturns(i)
                  /\ NewEpochEntry(p) )
                => ( /\ p \in DOMAIN port_states'
                     /\ port_states'[p] = port_states[p] )
      ]_vars

\* the number of flash tasks of port p waiting in the executor's queue
QueuedCount(ts, p) ==
    Cardinality({ i \in DOMAIN ts : ts[i].port = p /\ ts[i].pc = "queued" })

\* a flash task is submitted for port p in this step
DispatchStep(p) == QueuedCount(tasks', p) > QueuedCount(tasks, p)

\* C15: a flash task is submitted for a port only by a tick that finds the
\* port in WAITING, enumerated with block devices, and with
\* now - detected_time >= stable_delay; detected_time is set to the tick's time
\* whenever the port enters WAITING and is not changed while it stays WAITING;
\* a tick that finds a WAITING port without block devices resets it to
\* NOT_CONNECTED without dispatching, and the tick that detects block devices
\* again only restarts the debounce (WAITING, detected_time = that tick's time)
C15_DispatchOnlyAfterStableDelay ==
    [][ \A p \in PORTS :
          /\ DispatchStep(p)
             => ( /\ TickStep
                  /\ CurrentState(port_states, p) = WAITING
                  /\ Enumerated(p)
                  /\ usb.dev[p].block_devices # <<>>
                  /\ now - port_states[p].detected_time >= stable_delay )
          /\ ( /\ CurrentState(port_states, p) # WAITING
               /\ CurrentState(port_states', p) = WAITING )
             => ( /\ TickStep
                  /\ port_states'[p].detected_time = now )
          /\ ( /\ CurrentState(port_states, p) = WAITING
               /\ CurrentState(port_states', p) = WAITING )
             => port_states'[p].detected_time = port_states[p].detected_time
          /\ ( /\ TickStep
               /\ CurrentState(port_states, p) = WAITING
               /\ Enumerated(p)
               /\ usb.dev[p].block_devices = <<>> )
             => ( /\ CurrentState(port_states', p) = NOT_CONNECTED
                  /\ ~DispatchStep(p) )
          /\ ( /\ TickStep
               /\ CurrentState(port_states, p) = NOT_CONNECTED
               /\ Enumerated(p)
               /\ usb.dev[p].block_devices # <<>> )
             => ( /\ CurrentState(port_states', p) = WAITING
                  /\ port_states'[p].detected_time = now
                  /\ ~DispatchStep(p) )
      ]_vars

\* a port detected after the start has waited stable_delay = 1 and has just
\* been dispatched: FLASHING, its task in the queue
C15_Witness ==
    /\ stable_delay = 1
    /\ CurrentState(port_states, Port1) = FLASHING
    /\ port_states[Port1].detected_time > 0
    /\ now = port_states[Port1].detected_time + stable_delay + 1
    /\ epoch[Port1].dispatched = 1
    /\ \E i \in DOMAIN tasks :
          tasks[i] = FlashTask(Port1, SDX)

\* a flash task of port p takes a step (start, progress callback, result)
FlashStepOf(p) ==
    /\ now' = now
    /\ \E i \in DOMAIN tasks :
          /\ tasks[i].port = p
          /\ \/ tasks' = RemoveAt(tasks, i)
             \/ Len(tasks') = Len(tasks) /\ tasks'[i] # tasks[i]

\* a boot task of port p takes a step (result of the supervisor, end of the
\* helper thread)
BootStepOf(p) ==
    /\ now' = now
    /\ \E i \in DOMAIN boots :
          /\ boots[i].port = p
          /\ \/ boots' = RemoveAt(boots, i)
             \/ Len(boots') = Len(boots) /\ boots'[i] # boots[i]

\* the entry of q (or its absence) is the same before and after the step
SameEntry(q) ==
    /\ q \in DOMAIN port_states' <=> q \in DOMAIN port_states
    /\ q \in DOMAIN port_states => port_states'[q] = port_states[q]

\* what one tick makes of the entry of q when q is looked at alone
AloneResult(q) ==
    ProcessPort([ps |-> port_states, tasks |-> tasks, boots |-> boots, epoch |-> epoch],
                q, usb.dev[q], now).ps

\* C16: a step of a background task of port p (flash task or boot task)
\* leaves the entry of every other port as it was, and every tick evaluates
\* every enumerated port q exactly as if q were the only port, whatever the
\* state (FAILED included) of the other ports
C16_TaskStepsAreLocal ==
    [][ /\ \A p, q \in PORTS :
             ( /\ p # q
               /\ FlashStepOf(p) \/ BootStepOf(p) )
             => SameEntry(q)
        /\ TickStep
           => \A q \in PORTS :
                 Enumerated(q)
                 => ( /\ q \in DOMAIN port_states' <=> q \in DOMAIN AloneResult(q)
                      /\ q \in DOMAIN port_states'
                         => port_states'[q] = AloneResult(q)[q] )
      ]_vars

\* both ports are flashing, each with its own progress record: the task of
\* "1-2.1" has written one chunk, the task of "1-2.2" none yet
C16_Witness ==
    /\ CurrentState(port_states, Port1) = FLASHING
    /\ CurrentState(port_states, Port2) = FLASHING
    /\ \E i, j \in DOMAIN tasks :
          /\ tasks[i].port = Port1 /\ tasks[i].pc = "running"
          /\ tasks[j].port = Port2 /\ tasks[j].pc = "running"
    /\ port_states[Port1].progress.bytes_written = ChunkSize
    /\ port_states[Port2].progress.bytes_written = 0

\* the start-up of run_daemon cannot succeed: the configuration is invalid,
\* the image cannot be memory-mapped, or no monitor port can be resolved
StartupFails ==
    \/ ~daemon.config_ok
    \/ ~daemon.mappable
    \/ ~usb.sysfs
    \/ find_monitor_port(enumerate_all_usb_ports, daemon.config_port) = None

\* C17 (the claim as stated): when the start-up cannot succeed the monitoring
\* loop is never entered (no tick runs, no port is tracked, no executor is
\* created) and run_daemon returns a non-zero exit code
C17_StartupFailureAborts ==
    StartupFails
    => ( /\ daemon.pc \notin {"body", "finally", "cleanup"}
         /\ daemon.executor = "none"
         /\ now = 0
         /\ port_states = EmptyMap
         /\ daemon.pc = "returned" => daemon.exit_code = 1 )

\* C18 (the claim as stated): when run_daemon has returned, the mapping is not
\* open, close() was called at most once, and exactly once if the image was
\* mapped
C18_ImageClosedExactlyOnce ==
    daemon.pc = "returned"
    => ( /\ ~image_mmap
         /\ daemon.closes <= 1
         /\ (daemon.config_ok /\ daemon.mappable) => daemon.closes = 1 )

\* C19: the flag, once set, stays set; a pass that begins with the flag set
\* (the signal came while the iteration was in progress) is made in full and is
\* the last one: the loop then leaves for its finally block; outside the loop
\* no tick runs and nothing is dispatched; the executor is shut down in the
\* finally block of the loop in one step that touches no work item (it does
\* not wait for them); the image is closed only outside the loop, and once it
\* has been closed no flash task is dispatched
C19_ShutdownStopsDispatch ==
    [][ /\ daemon.shutdown_requested => daemon'.shutdown_requested
        /\ ( daemon.shutdown_requested /\ TickStep )
           => ( /\ port_states' = TickResult.ps
                /\ tasks' = TickResult.tasks
                /\ daemon'.pc = "finally" )
        /\ daemon.pc # "body"
           => ( /\ now' = now
                /\ \A p \in PORTS : ~DispatchStep(p) )
        /\ ( daemon.executor = "running" /\ daemon'.executor # "running" )
           => ( /\ daemon.pc = "finally"
                /\ daemon'.executor = "shutdown"
                /\ tasks' = tasks )
        /\ ( image_mmap /\ ~image_mmap' ) => daemon.pc # "body"
        /\ daemon.closes > 0 => \A p \in PORTS : ~DispatchStep(p)
      ]_vars

\* run_daemon has returned 0 after a signal: the executor is shut down, the
\* image has been closed once, and a flash task is still in the queue
C19_Witness ==
    /\ daemon.pc = "returned"
    /\ daemon.exit_code = 0
    /\ daemon.shutdown_requested
    /\ daemon.executor = "shutdown"
    /\ daemon.closes = 1
    /\ ~image_mmap
    /\ \E i \in DOMAIN tasks : tasks[i].pc = "queued"

\* the umount of some mounted partition of the target fails
AnyUnmountFails == \E i \in DOMAIN fl.mounted : fl.mounted[i] # "ok"

\* C20: when the umount of a mounted partition fails, flash_image never opens
\* the target, writes no byte and calls no progress callback, and once
\* unmount_device has returned the call has ended with IOError
C20_UnmountFailureAborts ==
    ( fl.pc # "idle" /\ AnyUnmountFails )
    => ( /\ fl.device_file = None
         /\ fl.opens = 0
         /\ fl.bytes_written = 0
         /\ fl.callbacks = 0
         /\ fl.pc \in {"parse", "unmount", "raised"}
         /\ ( fl.pc = "raised" /\ fl.exc # ValueError ) => fl.exc = IOError
         /\ ( fl.pc = "raised" /\ fl.unmounts > 0 ) => fl.exc = IOError )

\* the first partition was unmounted, the umount of the second failed, and
\* flash_image has raised IOError
C20_Witness ==
    /\ fl.pc = "raised"
    /\ fl.exc = IOError
    /\ Len(fl.mounted) = 2
    /\ fl.mounted[1] = "ok"
    /\ fl.mounted[2] # "ok"
    /\ fl.unmounts = 2
    /\ fl.opens = 0

\* the windows written so far are consecutive and start at offset 0
ConsecutiveWindows ==
    \A k \in DOMAIN fl.chunks :
        fl.chunks[k][1] = (IF k = 1 THEN 0
                           ELSE fl.chunks[k - 1][1] + fl.chunks[k - 1][2])

\* C21 (the claim as stated): when flash_image has returned, the chunks written
\* are consecutive windows of the image starting at offset 0, each of at least
\* one and at most chunk_size bytes, and the number of bytes written is the
\* length of the image
C21_ChunksCoverImage ==
    fl.pc = "returned"
    => ( /\ ConsecutiveWindows
         /\ \A k \in DOMAIN fl.chunks :
               fl.chunks[k][2] >= 1 /\ fl.chunks[k][2] <= fl.chunk_size
         /\ fl.bytes_written = fl.file_size )

\* C22: a step of the progress callback, whether it returns or raises, leaves
\* the call in the write loop with the same offset, byte count, chunks, handle
\* and pending exception: the state after a raising callback differs from the
\* state after a returning one in the count of callback errors only (the record
\* of the calls made is the same), which nothing reads, so the next chunk and the result are the same; the
\* callback's exception is never the exception of the call
C22_CallbackExceptionSwallowed ==
    [][ /\ fl.pc = "callback"
           => fl' = [fl EXCEPT !.pc = "write",
                               !.callbacks = @ + 1,
                               !.calls = fl'.calls,
                               !.callback_errors = fl'.callback_errors]
        /\ fl'.exc # Exception
        /\ fl'.callback_errors # fl.callback_errors => fl.pc = "callback"
      ]_vars

\* the callback raised after each of two chunks and flash_image has returned
\* with the whole image written
C22_Witness ==
    /\ fl.pc = "returned"
    /\ fl.callback_errors = 2
    /\ Len(fl.chunks) = 2
    /\ fl.bytes_written = fl.file_size

\* C23: whenever flash_image ends, by return or by any exception, no device
\* handle is open: a handle that was opened has been closed, and none exists
\* when the open failed or was never reached; the bytes written never
\* decrease and chunks already written are never taken back, in particular
\* not between a write failure and the end of the call
C23_HandleClosedNoRollback ==
    [][ /\ fl'.pc \in {"returned", "raised"}
           => ( /\ fl'.handle # "open"
                /\ fl'.opens > 0 => fl'.handle = "closed" /\ fl'.closes >= 1
                /\ fl'.opens = 0 => fl'.handle = "none" /\ fl'.closes = 0 )
        /\ fl'.bytes_written >= fl.bytes_written
        /\ Len(fl'.chunks) >= Len(fl.chunks)
        /\ SubSeq(fl'.chunks, 1, Len(fl.chunks)) = fl.chunks
        /\ fl.exc # None
           => fl'.bytes_written = fl.bytes_written /\ fl'.chunks = fl.chunks
      ]_vars

\* the second write failed after one chunk of a two-byte image: flash_image
\* has raised IOError, the handle is closed and the first byte stays written
C23_Witness ==
    /\ fl.pc = "raised"
    /\ fl.exc = IOError
    /\ fl.file_size = 2
    /\ fl.bytes_written = 1
    /\ fl.chunks = << <<0, 1>> >>
    /\ fl.opens = 1
    /\ fl.handle = "closed"
    /\ fl.closes = 1

\* parse_block_size has raised: the call has ended with ValueError before the
\* target was opened
ParseRaised == fl.pc = "raised" /\ fl.exc = ValueError /\ fl.opens = 0

\* C24: once flash_image has parsed its block size, "4M" has given 4194304,
\* "512K" 524288, "1G" 1073741824 and "100" 100 bytes and the call has gone
\* on, while "", "4X" and "M4" have ended the call with ValueError before
\* anything was unmounted or opened
C24_BlockSizeValues ==
    fl.pc \notin {"idle", "parse"}
    => ( /\ fl.block_size = <<"4", "M">>
            => fl.chunk_size = 4194304 /\ ~ParseRaised
         /\ fl.block_size = <<"5", "1", "2", "K">>
            => fl.chunk_size = 524288 /\ ~ParseRaised
         /\ fl.block_size = <<"1", "G">>
            => fl.chunk_size = 1073741824 /\ ~ParseRaised
         /\ fl.block_size = <<"1", "0", "0">>
            => fl.chunk_size = 100 /\ ~ParseRaised
         /\ fl.block_size \in { <<>>, <<"4", "X">>, <<"M", "4">> }
            => ParseRaised /\ fl.unmounts = 0 )

\* flash_image called with "512K" has returned after writing the image
C24_Witness ==
    /\ fl.pc = "returned"
    /\ fl.block_size = <<"5", "1", "2", "K">>
    /\ fl.chunk_size = 524288
    /\ fl.bytes_written = fl.file_size

\* the coordinates <<bus, port, ...>> a walk from the buses 1 and 2 can meet
Coordinates ==
    { <<b>> \o s : b \in {1, 2},
                   s \in UNION { [1..k -> 1..(MaxChild + 1)] : k \in 1..3 } }

\* the coordinate t is reachable in sysfs: each of its port numbers is one of
\* the 1..maxchild of the bus or device above it, which exists
ReachableIn(sysfs, t) ==
    /\ t[2] <= sysfs[UsbBus(t[1])].maxchild
    /\ \A k \in 3..Len(t) :
          /\ PortString(SubSeq(t, 1, k - 1)) \in DOMAIN sysfs
          /\ t[k] <= sysfs[PortString(SubSeq(t, 1, k - 1))].maxchild

ReachableIds(sysfs) == { PortString(t) : t \in { c \in Coordinates : ReachableIn(sysfs, c) } }

\* a tree has been enumerated: enumerate_all_usb_ports has returned
TreeEnumerated == call.pc \in {"unified", "again", "filtered"} /\ call.sysfs # EmptyDict

PairedRoot(raw, r) ==
    LET usb2 == PortString(<<1, r>>)
        usb3 == PortString(<<2, r>>)
    IN /\ usb2 \in DOMAIN raw /\ usb3 \in DOMAIN raw
       /\ _is_hub(usb2, raw) /\ _is_hub(usb3, raw)
       /\ raw[usb2].vendor_id = raw[usb3].vendor_id
       /\ raw[usb2].vendor_id # None

\* the ids of bus 2 at or below a paired root hub
FastDuplicates(raw) ==
    { p \in DOMAIN raw :
        \E r \in 1..(MaxChild + 1) :
           /\ PairedRoot(raw, r)
           /\ SplitHead(p, ".") = PortString(<<2, r>>) }

C26_UnifyIdempotent ==
    call.pc = "again" => call.again = call.unified

\* a map in which a USB 2.0 port was merged with its USB 3.0 counterpart, the
\* block devices of both in the merged entry, has been unified twice
C26_Witness ==
    /\ call.pc = "again"
    /\ DOMAIN call.unified # DOMAIN call.raw
    /\ \E p \in DOMAIN call.unified :
          /\ call.unified[p].block_devices = <<SDX, SDY>>
          /\ call.raw[p].block_devices = <<SDX>>

\* the id of the same port on the paired bus: bus b + 1 for an odd b, bus
\* b - 1 for an even b
CounterpartId(p) ==
    IF BusNum(p).value % 2 # 0 THEN Usb3Port(p)
    ELSE Replace1(p, FormatInt(BusNum(p).value) \o <<"-">>,
                  FormatInt(BusNum(p).value - 1) \o <<"-">>)

\* the port has no counterpart in raw
NoCounterpart(raw, p) ==
    BusNum(p).raised # None \/ CounterpartId(p) \notin DOMAIN raw

\* C27 (the claim as stated): every port of the raw map without a counterpart
\* is in the unified map under its own id with the same record
C27_NoCounterpartPassesThrough ==
    call.pc \in {"unified", "again", "filtered"}
    => \A p \in DOMAIN call.raw :
          NoCounterpart(call.raw, p)
          => ( p \in DOMAIN call.unified /\ call.unified[p] = call.raw[p] )

\* C28: the map filter_ports_by_limit returns has the records of ports_data
\* for its keys; the limit port is a key iff it is one of ports_data; any
\* other key of ports_data is a key iff it continues the limit port with a
\* "."; the sibling "1-20" is not returned for the limit port "1-2"
C28_FilterByLimit ==
    call.pc = "filtered"
    => ( /\ DOMAIN call.filtered \subseteq DOMAIN call.unified
         /\ \A p \in DOMAIN call.filtered : call.filtered[p] = call.unified[p]
         /\ call.limit_port \in DOMAIN call.filtered
            <=> call.limit_port \in DOMAIN call.unified
         /\ \A p \in DOMAIN call.unified \ {call.limit_port} :
               p \in DOMAIN call.filtered
               <=> ( /\ Len(p) > Len(call.limit_port)
                     /\ \A i \in 1..Len(call.limit_port) : p[i] = call.limit_port[i]
                     /\ p[Len(call.limit_port) + 1] = "." )
         /\ call.limit_port = PortString(<<1, 2>>)
            => PortString(<<1, 20>>) \notin DOMAIN call.filtered )

\* a map with "1-2", its child "1-2.1", the sibling "1-20" and a port of
\* another bus has been filtered by "1-2": the port and its child are returned
C28_Witness ==
    /\ call.pc = "filtered"
    /\ call.limit_port = PortString(<<1, 2>>)
    /\ PortString(<<1, 20>>) \in DOMAIN call.unified
    /\ PortString(<<2, 2>>) \in DOMAIN call.unified
    /\ DOMAIN call.filtered = {PortString(<<1, 2>>), PortString(<<1, 2, 1>>)}

\* the command did what it was called for: the image and the target were
\* valid, the image was mapped and flash_image returned; the ports were
\* enumerated and, with --port, some port matched; the helper was started,
\* was not interrupted, exited with 0 and reported no failure
CommandSucceeded ==
    CASE call.command = "flash" ->
            /\ call.host.image_valid /\ call.host.device_valid /\ call.host.mappable
            /\ fl.pc = "returned"
      [] call.command = "usb" ->
            /\ call.host.raised = None
            /\ ( call.args.all \/ call.args.port = None
                 \/ \E p \in DOMAIN call.host.ports_data :
                       p = call.args.port \/ startswith(p, call.args.port \o <<".">>) )
      [] call.command = "rpiboot" ->
            /\ call.host.popen = None /\ ~call.host.interrupted
            /\ call.host.return_code = 0 /\ ~call.host.error_detected

\* C29 (the claim as stated): a one-shot command that has ended returned 0 if
\* it succeeded and 1 if it did not
C29_ExitCodeZeroOrOne ==
    ( call.pc = "exited" /\ call.command \in {"flash", "usb", "rpiboot"} )
    => call.exit_code = IF CommandSucceeded THEN 0 ELSE 1

\* C29 (amended): a one-shot command that has ended returned 0 iff it
\* succeeded; a failed flash or usb command returned 1; a failed rpiboot
\* command returned 1 when the helper could not be started, else 130 when it
\* was interrupted, else the helper's own exit code when that is not 0, else 1
C29_ExitCodeZeroIffSuccess ==
    ( call.pc = "exited" /\ call.command \in {"flash", "usb", "rpiboot"} )
    => ( /\ call.exit_code = 0 <=> CommandSucceeded
         /\ ( ~CommandSucceeded /\ call.command # "rpiboot" ) => call.exit_code = 1
         /\ ( ~CommandSucceeded /\ call.command = "rpiboot" )
            => call.exit_code =
                  IF call.host.popen # None THEN 1
                  ELSE IF call.host.interrupted THEN 130
                  ELSE IF call.host.return_code # 0 THEN call.host.return_code
                  ELSE 1 )

\* the rpiboot command has ended with the exit code 2 of the helper
C29_Witness ==
    /\ call.pc = "exited"
    /\ call.command = "rpiboot"
    /\ call.host.popen = None
    /\ ~call.host.interrupted
    /\ call.host.return_code = 2
    /\ call.exit_code = 2

\* the transitions of the table of section 4.3
TransitionTable ==
    { <<NOT_CONNECTED, WAITING>>, <<NOT_CONNECTED, BOOTING>>, <<NOT_CONNECTED, UNKNOWN>>,
      <<BOOTING, WAITING>>, <<BOOTING, FAILED>>,
      <<WAITING, NOT_CONNECTED>>, <<WAITING, FLASHING>>,
      <<FLASHING, COMPLETED>>, <<FLASHING, FAILED>>,
      <<UNKNOWN, WAITING>>, <<UNKNOWN, NOT_CONNECTED>> }

\* C30 (the claim as stated): a step that changes the state of a port's entry
\* takes it along a transition of the table; an entry that appears is in
\* NOT_CONNECTED or in a state the table reaches from NOT_CONNECTED; an entry
\* may disappear from any state (purge)
C30_OnlyTableTransitions ==
    [][ \A p \in PORTS :
          /\ ( p \in DOMAIN port_states /\ p \in DOMAIN port_states'
               /\ port_states'[p].state # port_states[p].state )
             => <<port_states[p].state, port_states'[p].state>> \in TransitionTable
          /\ ( p \notin DOMAIN port_states /\ p \in DOMAIN port_states' )
             => port_states'[p].state \in {NOT_CONNECTED, WAITING, BOOTING, UNKNOWN}
      ]_vars

\* C31 (the claim as stated): a step of a background task (any step that is
\* not a tick of the poll loop) changes the state field of an entry only to
\* COMPLETED or FAILED; in particular no such step moves an entry that is
\* COMPLETED or FAILED back to FLASHING
C31_TasksWriteOnlyTerminalStates ==
    [][ now' = now =>
          \A p \in DOMAIN port_states \cap DOMAIN port_states' :
              port_states'[p].state # port_states[p].state
              => port_states'[p].state \in {COMPLETED, FAILED}
      ]_vars

\* C32 (the claim as stated): with the key test and the write as separate
\* steps, an update aimed at a purged port is a no-op: no step of a background
\* task adds a key to the map, no task ends with a KeyError, and no task whose
\* flash_image call returned normally is in the exception handler (its
\* outcome turned from success into failure)
C32_UpdateOfPurgedPortIsNoOp ==
    [][ /\ now' = now => DOMAIN port_states' \subseteq DOMAIN port_states
        /\ \A i \in DOMAIN tasks' : tasks'[i].exc # KeyError
        /\ \A i \in DOMAIN boots' : boots'[i].pc \notin {"except", "except_checked", "raised"}
      ]_vars

\* C33 (the claim as stated): a tick that finds the enumerated port "1-2.1"
\* untracked picks exactly one outcome, in this priority: block devices ->
\* WAITING with detected_time = the tick's time; else vendor 0x0a5c with product
\* 0x2711 or 0x2712 -> BOOTING and exactly one boot task launched; else any of
\* vendor_id, product_id, manufacturer, product, serial present -> UNKNOWN;
\* else no entry
C33_NotConnectedPriority ==
    [][ ( /\ TickStep
          /\ Enumerated(Port1)
          /\ Port1 \notin DOMAIN port_states )
        => LET info == usb.dev[Port1]
               eligible == /\ info.vendor_id = "0x0a5c"
                           /\ info.product_id \in {"0x2711", "0x2712"}
               identified == \/ info.vendor_id # None
                             \/ info.product_id # None
                             \/ info.manufacturer # None
                             \/ info.product # None
                             \/ info.serial # None
           IN IF info.block_devices # <<>>
              THEN /\ Port1 \in DOMAIN port_states'
                   /\ port_states'[Port1].state = WAITING
                   /\ port_states'[Port1].detected_time = now
                   /\ boots' = boots
              ELSE IF eligible
              THEN /\ Port1 \in DOMAIN port_states'
                   /\ port_states'[Port1].state = BOOTING
                   /\ Len(boots') = Len(boots) + 1
                   /\ boots'[Len(boots')].port = Port1
              ELSE IF identified
              THEN /\ Port1 \in DOMAIN port_states'
                   /\ port_states'[Port1].state = UNKNOWN
                   /\ boots' = boots
              ELSE /\ Port1 \notin DOMAIN port_states'
                   /\ boots' = boots
      ]_vars

\* the operations of flash_image on the target that may follow one another
StepOrder ==
    { <<"parse", "unmount">>, <<"unmount", "open">>, <<"open", "write">>,
      <<"write", "write">>, <<"write", "fsync">>, <<"open", "fsync">>,
      <<"fsync", "close">>, <<"close", "sync">> }

C35_CallbackOncePerChunk ==
    fl.progress_callback # None
    => ( /\ Len(fl.calls) = Len(fl.chunks) - (IF fl.pc = "callback" THEN 1 ELSE 0)
         /\ \A k \in DOMAIN fl.calls :
               /\ Len(fl.calls[k]) = 3
               /\ fl.calls[k][1] = fl.chunks[k][1] + fl.chunks[k][2]
               /\ fl.calls[k][2] = fl.file_size
               /\ k > 1 => fl.calls[k][1] > fl.calls[k - 1][1]
         /\ fl.pc = "returned"
            => ( /\ fl.calls # <<>>
                 /\ fl.calls[Len(fl.calls)][1] = fl.file_size ) )

\* C36 (the claim as stated): in every state in which the mapped image has
\* been closed, no flash task is running or still queued to run
C36_NoFlashTaskAfterClose ==
    daemon.closes > 0 => \A i \in DOMAIN tasks : tasks[i].pc \notin Active

\* the boot task of port p has returned: no supervisor of the port is waiting
\* for boot_rpiboot_device
BootReturned(p) ==
    \A i \in DOMAIN boots : boots[i].port = p => boots[i].pc # "supervising"

\* C37 (the claim as stated): under fair ticking, a port that is BOOTING and
\* whose boot task has returned eventually is no longer BOOTING (WAITING,
\* FAILED or purged), whatever the boot task reported
C37_BootingEventuallyLeft ==
    \A p \in PORTS :
        (CurrentState(port_states, p) = BOOTING /\ BootReturned(p))
        ~> (CurrentState(port_states, p) # BOOTING)

C39_BytesWrittenMonotone ==
    [][ \A p \in DOMAIN port_states \cap DOMAIN port_states' :
          /\ port_states[p].state = FLASHING
          /\ port_states'[p].state = FLASHING
          => /\ port_states'[p].progress.bytes_written
                  >= port_states[p].progress.bytes_written
             /\ port_states'[p].progress.total_bytes > 0
                  => port_states'[p].progress.bytes_written
                        <= port_states'[p].progress.total_bytes
      ]_vars

\* the fields of an entry of the daemon's dict
EntryFields == {"state", "block_devices", "detected_time", "progress", "error"}

\* C40: run side by side on the same enumerations and the same task results,
\* the TUI's dict and the daemon's dict have the same keys, and for every key
\* the same state, block_devices, detected_time, progress and error; an entry
\* of the TUI has no other field than these and boot_stage
C40_SameStateMachine ==
    /\ DOMAIN call.port_states = DOMAIN port_states
    /\ \A p \in DOMAIN port_states :
          /\ DOMAIN port_states[p] = EntryFields
          /\ DOMAIN call.port_states[p] \in {EntryFields, EntryFields \cup {"boot_stage"}}
          /\ \A k \in EntryFields : call.port_states[p][k] = port_states[p][k]

\* both loops have moved a booted port on to FLASHING, and the TUI's entry
\* still carries the boot_stage its stage_callback wrote
C40_Witness ==
    /\ Port1 \in DOMAIN port_states
    /\ port_states[Port1].state = FLASHING
    /\ Port1 \in DOMAIN call.port_states
    /\ "boot_stage" \in DOMAIN call.port_states[Port1]
    /\ call.port_states[Port1].boot_stage = "Boot complete"

====
